---- MODULE Spec2Model ----
(***************************************************************************)
(* A model of the DLSS context manager of Unity-DLSS-RR                    *)
(* (src/src/DLSSContext.cpp): the per-view feature contexts (DLSSContext), *)
(* the registry that owns them (DLSSContextManager) and the pure           *)
(* parameter / error mappers.                                              *)
(*                                                                         *)
(* Three specifications share the variables:                               *)
(*   Spec     the registry, called concurrently by Threads; every access   *)
(*            to state that is not protected by the table mutex is a step  *)
(*            of its own, so the interleavings the code allows are the     *)
(*            interleavings of the model;                                  *)
(*   SpecCtx  DLSSContext objects on their own: Create, Destroy, Execute,  *)
(*            move construction, move assignment;                          *)
(*   SpecNR   DLSSContext::NeedsRecreation as a pure function of the       *)
(*            stored snapshot and the new parameters.                      *)
(***************************************************************************)
EXTENDS Integers, Sequences, FiniteSets, TLC

-----------------------------------------------------------------------------
(* Bounds of the model.                                                    *)

\* Threads calling into the registry concurrently.
NumThreads == 2
\* View identifiers 1..NumViews (the code takes any uint32_t).
NumViews == 2
\* Vendor feature handles are 1..MaxHandles; the vendor create fails when all
\* of them are live.
MaxHandles == 2
\* Registry operations called in one run of Spec.
MaxOps == 4
\* DLSSContext objects of SpecCtx.
NumCtx == 2
\* Widths and heights of SpecNR are 1..MaxDim.
MaxDim == 2
\* SpecNR compares a snapshot with parameters that differ from it in at most
\* MaxDiff fields.
MaxDiff == 2
\* The largest quality value passed to the quality mapper.
MaxQualityValue == 6
\* Feature-flag bitmasks have the bits 0..MaxFlagBit.
MaxFlagBit == 7
\* Application IDs passed to Initialize are 0..MaxAppId.
MaxAppId == 2
\* The Lite plugin's handle counter wraps at LiteCapacity.
LiteCapacity == 3

Threads == 1..NumThreads
Views   == 1..NumViews
Handles == 1..MaxHandles
Ctxs    == 1..NumCtx
Dims    == 1..MaxDim

-----------------------------------------------------------------------------
(* Program constants (src/src/DLSSPlugin.h).                               *)

NULL == 0

\* src/src/DLSSPluginLite.h
DLSS_INVALID_FEATURE_HANDLE == -1

DLSS_Mode_Off               == 0
DLSS_Mode_SuperResolution   == 1
DLSS_Mode_RayReconstruction == 2

DLSS_Quality_MaxPerformance == 0
DLSS_Quality_Balanced       == 1
DLSS_Quality_MaxQuality       == 2
DLSS_Quality_UltraPerformance == 3
DLSS_Quality_UltraQuality     == 4
DLSS_Quality_DLAA             == 5

DLSS_SR_Preset_Default == 0
DLSS_SR_Preset_K       == 11
DLSS_RR_Preset_Default == 0
DLSS_RR_Preset_E       == 5

DLSS_Flag_None  == 0
DLSS_Flag_IsHDR == 1
DLSS_Flag_MVLowRes       == 2
DLSS_Flag_MVJittered     == 4
DLSS_Flag_DepthInverted  == 8
DLSS_Flag_AutoExposure   == 64
DLSS_Flag_AlphaUpscaling == 128

DLSS_Denoise_Off       == 0
DLSS_Denoise_DLUnified == 1
DLSS_Depth_Linear      == 0
DLSS_Depth_Hardware    == 1
DLSS_Roughness_Unpacked         == 0
DLSS_Roughness_PackedInNormalsW == 1

\* DLSSDimensions.
Dim(w, h) == [width |-> w, height |-> h]

\* The six per-quality presets of one mode, in the order of the struct:
\* DLAA, Quality, Balanced, Performance, UltraPerformance, UltraQuality.
Presets(p) == <<p, p, p, p, p, p>>

\* DLSSContextCreateParams: `m_params = {}` zero-initialises every field.
ZeroParams ==
    [mode |-> DLSS_Mode_Off, quality |-> DLSS_Quality_MaxPerformance,
     inputResolution |-> Dim(0, 0), outputResolution |-> Dim(0, 0),
     featureFlags |-> DLSS_Flag_None,
     presetsSR |-> Presets(DLSS_SR_Preset_Default),
     denoiseMode |-> DLSS_Denoise_Off, depthType |-> DLSS_Depth_Linear,
     roughnessMode |-> DLSS_Roughness_Unpacked,
     presetsRR |-> Presets(DLSS_RR_Preset_Default),
     enableOutputSubrects |-> 0]

-----------------------------------------------------------------------------
(* Vendor result codes and the error translator.                           *)

NGX_Success == "NVSDK_NGX_Result_Success"

\* The vendor failure codes TranslateNGXResult names, and one it does not.
NGXFailureCodes ==
    {"FAIL_FeatureNotSupported", "FAIL_PlatformError", "FAIL_FeatureAlreadyExists",
     "FAIL_FeatureNotFound", "FAIL_InvalidParameter", "FAIL_ScratchBufferTooSmall",
     "FAIL_NotInitialized", "FAIL_UnsupportedInputFormat", "FAIL_RWFlagMissing",
     "FAIL_MissingInput", "FAIL_UnableToInitializeFeature", "FAIL_OutOfDate",
     "FAIL_OutOfGPUMemory", "FAIL_UnsupportedFormat",
     "FAIL_UnableToWriteToAppDataPath", "FAIL_UnsupportedParameter",
     "FAIL_Denied", "FAIL_NotImplemented", "FAIL_Unrecognized"}

\* NVSDK_NGX_FAILED: the code's test of a vendor result.
NGX_FAILED(r) == r \in NGXFailureCodes

\* The vendor codes TranslateNGXResult has a case for.
TableCodes == NGXFailureCodes \ {"FAIL_Unrecognized"}

\* A translator that takes an unlisted code for success.
TranslateDefault_Success == "Success"

\* default: result = DLSS_Result_Fail_NGXError.
TranslateDefault == "NGXError"

\* A translator that takes an undersized scratch buffer for a lack of memory.
TranslateScratchBufferTooSmall_OutOfMemory == "OutOfMemory"

\* case NVSDK_NGX_Result_FAIL_ScratchBufferTooSmall.
TranslateScratchBufferTooSmall == "InvalidParameter"

\* DLSSContextManager::TranslateNGXResult.
TranslateNGXResult(r) ==
    CASE r = NGX_Success                        -> "Success"
      [] r = "FAIL_FeatureNotSupported"         -> "FeatureNotSupported"
      [] r = "FAIL_PlatformError"               -> "PlatformError"
      [] r = "FAIL_FeatureAlreadyExists"        -> "ContextAlreadyExists"
      [] r = "FAIL_FeatureNotFound"             -> "ContextNotFound"
      [] r = "FAIL_InvalidParameter"            -> "InvalidParameter"
      [] r = "FAIL_ScratchBufferTooSmall"       -> TranslateScratchBufferTooSmall
      [] r = "FAIL_NotInitialized"              -> "NotInitialized"
      [] r = "FAIL_UnsupportedInputFormat"      -> "InvalidParameter"
      [] r = "FAIL_RWFlagMissing"               -> "InvalidParameter"
      [] r = "FAIL_MissingInput"                -> "InvalidParameter"
      [] r = "FAIL_UnableToInitializeFeature"   -> "NGXError"
      [] r = "FAIL_OutOfDate"                   -> "DriverOutOfDate"
      [] r = "FAIL_OutOfGPUMemory"              -> "OutOfMemory"
      [] r = "FAIL_UnsupportedFormat"           -> "InvalidParameter"
      [] r = "FAIL_UnableToWriteToAppDataPath"  -> "PlatformError"
      [] r = "FAIL_UnsupportedParameter"        -> "InvalidParameter"
      [] r = "FAIL_Denied"                      -> "FeatureNotSupported"
      [] r = "FAIL_NotImplemented"              -> "FeatureNotSupported"
      [] OTHER                                  -> TranslateDefault

\* The lines TranslateNGXResult logs: none for the success code, else the
\* error line and the suggestion line.
TranslateLogLines(r) == IF r = NGX_Success THEN 0 ELSE 2

\* A quality mapper that takes MaxPerformance for the vendor's ultra
\* performance tier.
MaxPerformanceCode_Ultra == "NVSDK_NGX_PerfQuality_Value_UltraPerformance"

\* case DLSS_Quality_MaxPerformance.
MaxPerformanceCode == "NVSDK_NGX_PerfQuality_Value_MaxPerf"

\* flags & bit, for a bit that is a power of two: is the bit set?
HasFlag(flags, bit) == (flags \div bit) % 2 = 1

\* A flag mapper that takes jittered motion vectors for HDR input.
MVJitteredVendorFlag_IsHDR == "NVSDK_NGX_DLSS_Feature_Flags_IsHDR"

\* if (flags & DLSS_Flag_MVJittered): the vendor bit that is set.
MVJitteredVendorFlag == "NVSDK_NGX_DLSS_Feature_Flags_MVJittered"

\* ToNGXFeatureFlags: the vendor mask, as the set of the vendor bits set
\* in it (NVSDK_NGX_DLSS_Feature_Flags_None is the empty set, |= adds a bit).
ToNGXFeatureFlags(flags) ==
    (IF HasFlag(flags, DLSS_Flag_IsHDR)
        THEN {"NVSDK_NGX_DLSS_Feature_Flags_IsHDR"} ELSE {})
    \cup (IF HasFlag(flags, DLSS_Flag_MVLowRes)
        THEN {"NVSDK_NGX_DLSS_Feature_Flags_MVLowRes"} ELSE {})
    \cup (IF HasFlag(flags, DLSS_Flag_MVJittered)
        THEN {MVJitteredVendorFlag} ELSE {})
    \cup (IF HasFlag(flags, DLSS_Flag_DepthInverted)
        THEN {"NVSDK_NGX_DLSS_Feature_Flags_DepthInverted"} ELSE {})
    \cup (IF HasFlag(flags, DLSS_Flag_AutoExposure)
        THEN {"NVSDK_NGX_DLSS_Feature_Flags_AutoExposure"} ELSE {})
    \cup (IF HasFlag(flags, DLSS_Flag_AlphaUpscaling)
        THEN {"NVSDK_NGX_DLSS_Feature_Flags_AlphaUpscaling"} ELSE {})

\* ToNGXPerfQuality.
ToNGXPerfQuality(quality) ==
    CASE quality = DLSS_Quality_MaxPerformance   -> MaxPerformanceCode
      [] quality = DLSS_Quality_Balanced         -> "NVSDK_NGX_PerfQuality_Value_Balanced"
      [] quality = DLSS_Quality_MaxQuality       -> "NVSDK_NGX_PerfQuality_Value_MaxQuality"
      [] quality = DLSS_Quality_UltraPerformance -> "NVSDK_NGX_PerfQuality_Value_UltraPerformance"
      [] quality = DLSS_Quality_UltraQuality     -> "NVSDK_NGX_PerfQuality_Value_UltraQuality"
      [] quality = DLSS_Quality_DLAA             -> "NVSDK_NGX_PerfQuality_Value_DLAA"
      [] OTHER                                   -> "NVSDK_NGX_PerfQuality_Value_Balanced"

\* What a vendor entry point may return in Spec and SpecCtx: success, a
\* failure the translator names and a failure it does not.
VendorResults == {NGX_Success, "FAIL_OutOfGPUMemory"}

-----------------------------------------------------------------------------
(* DLSSContext: one vendor handle and the parameters it was created with.  *)
(* Each method is an operator from the object (and what the vendor         *)
(* answers) to the object afterwards, the result, and the vendor calls     *)
(* made, in order.                                                         *)

\* A default-constructed DLSSContext.
EmptyContext == [handle |-> NULL, params |-> ZeroParams]

\* NeedsRecreation with the input-resolution comparison turned around.
NeedsRecreation_InputShrinks(s, n) ==
    IF s.mode # n.mode THEN TRUE
    ELSE IF s.outputResolution.width # n.outputResolution.width
            \/ s.outputResolution.height # n.outputResolution.height THEN TRUE
    ELSE IF s.inputResolution.width > n.inputResolution.width
            \/ s.inputResolution.height > n.inputResolution.height THEN TRUE
    ELSE IF s.quality # n.quality THEN TRUE
    ELSE IF s.featureFlags # n.featureFlags THEN TRUE
    ELSE IF n.mode = DLSS_Mode_RayReconstruction
            /\ (s.denoiseMode # n.denoiseMode
                \/ s.depthType # n.depthType
                \/ s.roughnessMode # n.roughnessMode) THEN TRUE
    ELSE FALSE

\* NeedsRecreation reading the RR-only fields whatever the new mode is.
NeedsRecreation_RRFieldsAlways(s, n) ==
    IF s.mode # n.mode THEN TRUE
    ELSE IF s.outputResolution.width # n.outputResolution.width
            \/ s.outputResolution.height # n.outputResolution.height THEN TRUE
    ELSE IF s.inputResolution.width < n.inputResolution.width
            \/ s.inputResolution.height < n.inputResolution.height THEN TRUE
    ELSE IF s.quality # n.quality THEN TRUE
    ELSE IF s.featureFlags # n.featureFlags THEN TRUE
    ELSE IF s.denoiseMode # n.denoiseMode
            \/ s.depthType # n.depthType
            \/ s.roughnessMode # n.roughnessMode THEN TRUE
    ELSE FALSE

\* NeedsRecreation comparing only the lowest bit of the feature flags.
NeedsRecreation_FlagsLowBit(s, n) ==
    IF s.mode # n.mode THEN TRUE
    ELSE IF s.outputResolution.width # n.outputResolution.width
            \/ s.outputResolution.height # n.outputResolution.height THEN TRUE
    ELSE IF s.inputResolution.width < n.inputResolution.width
            \/ s.inputResolution.height < n.inputResolution.height THEN TRUE
    ELSE IF s.quality # n.quality THEN TRUE
    ELSE IF s.featureFlags % 2 # n.featureFlags % 2 THEN TRUE
    ELSE IF n.mode = DLSS_Mode_RayReconstruction
            /\ (s.denoiseMode # n.denoiseMode
                \/ s.depthType # n.depthType
                \/ s.roughnessMode # n.roughnessMode) THEN TRUE
    ELSE FALSE

\* DLSSContext::NeedsRecreation against the stored snapshot s.
NeedsRecreation(s, n) ==
    IF s.mode # n.mode THEN TRUE
    ELSE IF s.outputResolution.width # n.outputResolution.width
            \/ s.outputResolution.height # n.outputResolution.height THEN TRUE
    ELSE IF s.inputResolution.width < n.inputResolution.width
            \/ s.inputResolution.height < n.inputResolution.height THEN TRUE
    ELSE IF s.quality # n.quality THEN TRUE
    ELSE IF s.featureFlags # n.featureFlags THEN TRUE
    ELSE IF n.mode = DLSS_Mode_RayReconstruction
            /\ (s.denoiseMode # n.denoiseMode
                \/ s.depthType # n.depthType
                \/ s.roughnessMode # n.roughnessMode) THEN TRUE
    ELSE FALSE

\* A Destroy that clears m_params only when it releases a handle.
Destroy_ClearsWithHandle(c) ==
    [ctx   |-> IF c.handle # NULL THEN [handle |-> NULL, params |-> ZeroParams] ELSE c,
     calls |-> IF c.handle # NULL THEN <<[call |-> "ReleaseFeature", handle |-> c.handle]>>
               ELSE <<>>]

\* DLSSContext::Destroy: releases the handle if there is one, clears m_params.
Destroy(c) ==
    [ctx   |-> [handle |-> NULL, params |-> ZeroParams],
     calls |-> IF c.handle # NULL THEN <<[call |-> "ReleaseFeature", handle |-> c.handle]>>
               ELSE <<>>]

\* The vendor create entry point the mode selects.
CreateEntryPoint(params) ==
    IF params.mode = DLSS_Mode_RayReconstruction THEN "CreateDLSSD" ELSE "CreateDLSS"

\* A Create that looks for the shared parameter object before it destroys
\* the handle it holds.
Create_KeepsHandle(c, ngxParams, params, ngxResult, newHandle) ==
    LET pre   == IF c.handle # NULL THEN Destroy(c) ELSE [ctx |-> c, calls |-> <<>>]
        call  == [call |-> CreateEntryPoint(params), handle |-> newHandle]
    IN  IF ngxParams = NULL
        THEN [ctx |-> c, result |-> "NotInitialized", calls |-> <<>>,
              vendorCalled |-> FALSE]
        ELSE IF NGX_FAILED(ngxResult)
        THEN [ctx |-> [pre.ctx EXCEPT !.handle = NULL],
              result |-> TranslateNGXResult(ngxResult),
              calls |-> pre.calls \o <<[call EXCEPT !.handle = NULL]>>,
              vendorCalled |-> TRUE]
        ELSE [ctx |-> [handle |-> newHandle, params |-> params],
              result |-> "Success",
              calls |-> pre.calls \o <<call>>,
              vendorCalled |-> TRUE]

\* A Create that releases the handle it holds after the vendor create.
CreateCallOrder_ReleaseLast(releases, creates) == creates \o releases

\* The vendor calls of a Create in order: Destroy() runs before the vendor
\* create is reached.
CreateCallOrder(releases, creates) == releases \o creates

\* A Create that leaves the snapshot cleared.
StoredSnapshot_Cleared(params) == ZeroParams

\* m_params = params: the snapshot a successful Create stores.
StoredSnapshot(params) == params

\* A Create that calls the vendor a second time when the first call failed.
FailedCreateCalls_Retry(call) == <<call, call>>

\* The vendor create calls of a Create whose vendor create failed: the one
\* call, whose failure is returned.
FailedCreateCalls(call) == <<call>>

\* DLSSContext::Create. ngxParams is what mgr.GetNGXParams() returns,
\* ngxResult and newHandle what the vendor create answers when it is called.
Create(c, ngxParams, params, ngxResult, newHandle) ==
    LET pre   == IF c.handle # NULL THEN Destroy(c) ELSE [ctx |-> c, calls |-> <<>>]
        call  == [call |-> CreateEntryPoint(params), handle |-> newHandle]
    IN  IF ngxParams = NULL
        THEN [ctx |-> pre.ctx, result |-> "NotInitialized", calls |-> pre.calls,
              vendorCalled |-> FALSE]
        ELSE IF NGX_FAILED(ngxResult)
        THEN [ctx |-> [pre.ctx EXCEPT !.handle = NULL],
              result |-> TranslateNGXResult(ngxResult),
              calls |-> CreateCallOrder(pre.calls,
                                        FailedCreateCalls([call EXCEPT !.handle = NULL])),
              vendorCalled |-> TRUE]
        ELSE [ctx |-> [handle |-> newHandle, params |-> StoredSnapshot(params)],
              result |-> "Success",
              calls |-> CreateCallOrder(pre.calls, <<call>>),
              vendorCalled |-> TRUE]

\* The vendor evaluation entry point the execute parameters' mode selects.
EvaluateEntryPoint(mode) ==
    IF mode = DLSS_Mode_RayReconstruction THEN "EvaluateDLSSD" ELSE "EvaluateDLSS"

\* An Execute that drops the handle and the snapshot when the vendor
\* evaluation fails.
Execute_ClearsOnFailure(c, ngxParams, mode, ngxResult) ==
    IF c.handle = NULL
    THEN [ctx |-> c, result |-> "ContextNotFound", calls |-> <<>>, vendorCalled |-> FALSE]
    ELSE IF ngxParams = NULL
    THEN [ctx |-> c, result |-> "NotInitialized", calls |-> <<>>, vendorCalled |-> FALSE]
    ELSE [ctx |-> IF NGX_FAILED(ngxResult) THEN [handle |-> NULL, params |-> ZeroParams] ELSE c,
          result |-> IF NGX_FAILED(ngxResult) THEN TranslateNGXResult(ngxResult)
                     ELSE "Success",
          calls |-> <<[call |-> IF mode = DLSS_Mode_RayReconstruction THEN "EvaluateDLSSD"
                                ELSE "EvaluateDLSS",
                       handle |-> c.handle]>>,
          vendorCalled |-> TRUE]

\* An Execute that rejects execute parameters whose mode is not the mode
\* the context was created with.
Execute_RejectsOtherMode(c, ngxParams, mode, ngxResult) ==
    IF c.handle = NULL
    THEN [ctx |-> c, result |-> "ContextNotFound", calls |-> <<>>, vendorCalled |-> FALSE]
    ELSE IF ngxParams = NULL
    THEN [ctx |-> c, result |-> "NotInitialized", calls |-> <<>>, vendorCalled |-> FALSE]
    ELSE IF mode # c.params.mode
    THEN [ctx |-> c, result |-> "InvalidParameter", calls |-> <<>>, vendorCalled |-> FALSE]
    ELSE [ctx |-> c,
          result |-> IF NGX_FAILED(ngxResult) THEN TranslateNGXResult(ngxResult)
                     ELSE "Success",
          calls |-> <<[call |-> IF mode = DLSS_Mode_RayReconstruction THEN "EvaluateDLSSD"
                                ELSE "EvaluateDLSS",
                       handle |-> c.handle]>>,
          vendorCalled |-> TRUE]

\* DLSSContext::Execute.
Execute(c, ngxParams, mode, ngxResult) ==
    IF c.handle = NULL
    THEN [ctx |-> c, result |-> "ContextNotFound", calls |-> <<>>, vendorCalled |-> FALSE]
    ELSE IF ngxParams = NULL
    THEN [ctx |-> c, result |-> "NotInitialized", calls |-> <<>>, vendorCalled |-> FALSE]
    ELSE [ctx |-> c,
          result |-> IF NGX_FAILED(ngxResult) THEN TranslateNGXResult(ngxResult)
                     ELSE "Success",
          calls |-> <<[call |-> EvaluateEntryPoint(mode), handle |-> c.handle]>>,
          vendorCalled |-> TRUE]

\* DLSSContext(DLSSContext&& other): the new object and what is left of other.
MoveConstruct(other) ==
    [ctx   |-> [handle |-> other.handle, params |-> other.params],
     other |-> [other EXCEPT !.handle = NULL],
     calls |-> <<>>]

\* A move assignment that overwrites the handle the target holds without
\* releasing it.
MoveAssign_NoRelease(c, other) ==
    [ctx   |-> [handle |-> other.handle, params |-> other.params],
     other |-> [other EXCEPT !.handle = NULL],
     calls |-> << >>]

\* DLSSContext::operator=(DLSSContext&& other), this # &other.
MoveAssign(c, other) ==
    [ctx   |-> [handle |-> other.handle, params |-> other.params],
     other |-> [other EXCEPT !.handle = NULL],
     calls |-> Destroy(c).calls]

-----------------------------------------------------------------------------
(* The parameter sets the callers of Spec pass.                            *)

\* A standard-mode parameter set.
ParamsBase ==
    [ZeroParams EXCEPT !.mode = DLSS_Mode_SuperResolution,
                       !.quality = DLSS_Quality_Balanced,
                       !.inputResolution = Dim(1, 1),
                       !.outputResolution = Dim(2, 2)]
\* ParamsBase with fields NeedsRecreation does not read changed: a preset
\* table, enableOutputSubrects and the RR-only fields (the mode is not RR).
ParamsMinor ==
    [ParamsBase EXCEPT !.presetsSR = Presets(DLSS_SR_Preset_K),
                       !.presetsRR = Presets(DLSS_RR_Preset_E),
                       !.denoiseMode = DLSS_Denoise_DLUnified,
                       !.depthType = DLSS_Depth_Hardware,
                       !.roughnessMode = DLSS_Roughness_PackedInNormalsW,
                       !.enableOutputSubrects = 1]
\* ParamsBase with a larger input resolution.
ParamsLarge == [ParamsBase EXCEPT !.inputResolution = Dim(2, 1)]

ParamSet == {ParamsBase, ParamsMinor, ParamsLarge}

\* ParamsBase in ray-reconstruction mode, and the parameter sets passed to
\* the Create of a DLSSContext used directly.
ParamsRR == [ParamsBase EXCEPT !.mode = DLSS_Mode_RayReconstruction,
                               !.denoiseMode = DLSS_Denoise_DLUnified]
CtxParamSet == {ParamsBase, ParamsLarge, ParamsRR}

\* The mode field of the execute parameters a caller passes.
ExecModes == {DLSS_Mode_SuperResolution, DLSS_Mode_RayReconstruction}
\* The same for a DLSSContext used directly: also the value no feature has.
CtxExecModes == ExecModes \cup {DLSS_Mode_Off}

\* The device the host supplies (or none), and a recording handle (or none).
Device  == 1
CmdList == 1
\* The capability object NVSDK_NGX_D3D12_GetCapabilityParameters hands out.
CapabilityObject == 1

\* What the capability query answers for (SR available, RR available).
CapabilityAnswers == {<<TRUE, FALSE>>}

-----------------------------------------------------------------------------
(* State.                                                                  *)

VARIABLES
    \* DLSSContextManager
    m_initialized,      \* std::atomic<bool>
    m_device,           \* ComPtr<ID3D12Device>: NULL or the device
    m_ngxParams,        \* NVSDK_NGX_Parameter*: NULL or the capability object
    m_contexts,         \* the view table: view id -> DLSSContext
    m_contextMutex,     \* 0 when free, else the thread that holds it
    m_dlssSRAvailable,
    m_dlssRRAvailable,
    \* the vendor runtime and the process
    liveHandles,        \* the feature handles created and not yet released
    doubleRelease,      \* a handle was released that was not live
    crashed,            \* the process dereferenced a null device
    nOps,               \* the registry operations called so far
    \* each calling thread
    pc,                 \* where the thread is in its operation
    op,                 \* the registry operation the thread is in
    args,               \* the operation's arguments
    result,             \* what the operation (or a nested call) returned
    calls,              \* the vendor calls the operation made, in order
    \* SpecCtx: DLSSContext objects on their own
    ctx,                \* the objects
    ctxLast,            \* per object, how its handle was last set or emptied;
                        \* "none" where no object is constructed
    ctxOp,              \* the last operation: its name, object, result, vendor calls
    \* SpecNR: NeedsRecreation as a function
    nrStored, nrNew, nrOut,
    \* SpecQ: the capability queries
    out,                \* per thread, the output structure its query was given:
                        \* "untouched" or "written"
    \* SpecEvt: the pending execute snapshot and the render-event callback
    m_currentViewId,    \* std::atomic<uint32_t>
    m_executeParams,    \* DLSSExecuteParams: its mode and the rest of the structure
    m_executeParamsMutex, \* 0 when free, else the thread that holds it
    evt,                \* per thread, what its render-event callback has read:
                        \* viewId, params.mode, the rest of params
    \* SpecFn: the translators as functions
    fnIn,               \* the arguments: a vendor result code, two quality tiers
    fnOut,              \* what the translators returned and logged
    fnDone,             \* the translators that have been applied
    \* SpecLite: the handle table of the Lite plugin
    g_featureHandleCounter, \* uint32_t, kept modulo the wrap of the allocator
    g_featureHandles,   \* std::unordered_map<int, NVSDK_NGX_Handle*>
    liteOp              \* the last call: its name, handle argument, result,
                        \* vendor calls, and the features a Shutdown left
                        \* unreleased

mgrVars    == <<m_initialized, m_device, m_ngxParams, m_contexts, m_contextMutex,
                m_dlssSRAvailable, m_dlssRRAvailable>>
vendorVars == <<liveHandles, doubleRelease, crashed>>
envVars    == <<nOps>>
threadVars == <<pc, op, args, result, calls>>
ctxVars    == <<ctx, ctxLast, ctxOp>>
nrVars     == <<nrStored, nrNew, nrOut>>
queryVars  == <<out>>
snapVars   == <<m_currentViewId, m_executeParams, m_executeParamsMutex, evt>>
fnVars     == <<fnIn, fnOut, fnDone>>
liteVars   == <<g_featureHandleCounter, g_featureHandles, liteOp>>
auxVars    == <<queryVars, snapVars, fnVars, liteVars>>
vars       == <<mgrVars, vendorVars, envVars, threadVars, ctxVars, nrVars, auxVars>>

NoArgs == [view |-> 0, params |-> ZeroParams, cmdList |-> NULL, mode |-> DLSS_Mode_Off,
           device |-> NULL, initAtCall |-> FALSE, outPtr |-> NULL]

\* The output structures as the callers zero them before a query.
NoOutput == [t \in Threads |-> "untouched"]

\* The execute parameters the application prepares for view v: the mode of
\* the view's context and the view's own textures. View 0 is the zeroed
\* structure m_executeParams starts as.
ModeFor(v) ==
    CASE v = 0 -> DLSS_Mode_Off
      [] v = 1 -> DLSS_Mode_SuperResolution
      [] OTHER -> DLSS_Mode_RayReconstruction
ExecuteParamsFor(v) == [mode |-> ModeFor(v), textures |-> v]

\* What a render-event callback has read before it read anything.
NoEvent == [view |-> 0, mode |-> DLSS_Mode_Off, textures |-> 0]

\* Arguments of the translators when none is of interest.
NoFnIn == [code |-> NGX_Success, quality |-> DLSS_Quality_Balanced,
           quality2 |-> DLSS_Quality_Balanced, flags |-> DLSS_Flag_None,
           flags2 |-> DLSS_Flag_None, appId |-> 0, projectId |-> "nullptr"]

\* The translators' results before any is applied.
NoFnOut == [result |-> "None", logLines |-> 0, perfQuality |-> "None", perfQuality2 |-> "None",
            ngxFlags |-> {}, ngxFlags2 |-> {}, ngxFlagsOr |-> {},
            appIdentifier |-> [IdentifierType |-> "None"],
            initCall |-> [entry |-> "None", args |-> << >>]]

\* No call of the Lite plugin yet.
NoLiteOp == [name |-> "None", handle |-> 0, hostOk |-> TRUE, result |-> 0, calls |-> << >>,
             unreleased |-> {}]

\* The statics of the Lite plugin as initialized.
LiteInit ==
    /\ g_featureHandleCounter = 0
    /\ g_featureHandles = << >>
    /\ liteOp = NoLiteOp

\* The members the queries and the render-event callback use, as constructed.
AuxInit ==
    /\ out = NoOutput
    /\ m_currentViewId = 0
    /\ m_executeParams = ExecuteParamsFor(0)
    /\ m_executeParamsMutex = 0
    /\ evt = [t \in Threads |-> NoEvent]
    /\ fnIn = NoFnIn
    /\ fnOut = NoFnOut
    /\ fnDone = {}
    /\ LiteInit

\* A DLSSContextManager as constructed, no thread inside it.
Init ==
    /\ m_initialized = FALSE
    /\ m_device = NULL
    /\ m_ngxParams = NULL
    /\ m_contexts = << >>
    /\ m_contextMutex = 0
    /\ m_dlssSRAvailable = FALSE
    /\ m_dlssRRAvailable = FALSE
    /\ liveHandles = {}
    /\ doubleRelease = FALSE
    /\ crashed = FALSE
    /\ nOps = 0
    /\ pc = [t \in Threads |-> "Idle"]
    /\ op = [t \in Threads |-> "None"]
    /\ args = [t \in Threads |-> NoArgs]
    /\ result = [t \in Threads |-> "None"]
    /\ calls = [t \in Threads |-> << >>]
    /\ ctx = << >>
    /\ ctxLast = << >>
    /\ ctxOp = << >>
    /\ nrStored = ZeroParams
    /\ nrNew = ZeroParams
    /\ nrOut = FALSE
    /\ AuxInit

-----------------------------------------------------------------------------
(* Helpers of the registry's steps.                                        *)

\* The names of a sequence of vendor calls.
CallNames(cs) == [i \in 1..Len(cs) |-> cs[i].call]

\* The handles a sequence of vendor calls releases, and those it creates.
ReleasedBy(cs) == {cs[i].handle : i \in {j \in 1..Len(cs) : cs[j].call = "ReleaseFeature"}}
CreatedBy(cs)  == {cs[i].handle : i \in {j \in 1..Len(cs) :
                                         cs[j].call \in {"CreateDLSS", "CreateDLSSD"}}} \ {NULL}

\* The vendor's side of the calls cs: a release of a handle that is not live
\* is a double release.
VendorApply(cs) ==
    /\ liveHandles' = (liveHandles \ ReleasedBy(cs)) \cup CreatedBy(cs)
    /\ doubleRelease' = (doubleRelease \/ ~(ReleasedBy(cs) \subseteq liveHandles))

\* The calls cs made by thread t in one step of its operation.
VendorDoes(t, cs) ==
    /\ VendorApply(cs)
    /\ calls' = [calls EXCEPT ![t] = @ \o CallNames(cs)]

\* The handle the vendor hands out next, the handles rel having been
\* released just before.
FreeHandles(rel) == Handles \ (liveHandles \ rel)
NewHandle(rel)   == IF FreeHandles(rel) = {} THEN NULL
                    ELSE CHOOSE h \in FreeHandles(rel) : \A g \in FreeHandles(rel) : h <= g

\* What the vendor create may answer: it succeeds only with a handle to give.
CreateAnswers(rel) == IF FreeHandles(rel) = {} THEN VendorResults \ {NGX_Success}
                      ELSE VendorResults

\* An erase that destroys the context and leaves its entry in the table.
TableErase_LeavesEntry(tbl, v) == [tbl EXCEPT ![v] = Destroy(tbl[v]).ctx]

\* m_contexts.erase(it): the entry's DLSSContext is destroyed (~DLSSContext).
TableErase(tbl, v) == [x \in (DOMAIN tbl) \ {v} |-> tbl[x]]
\* m_contexts[viewId] = std::move(context).
TableInsert(tbl, v, c) == [x \in (DOMAIN tbl) \cup {v} |-> IF x = v THEN c ELSE tbl[x]]
\* A clear that drops the entries without destroying their contexts.
DestroyCalls_None(tbl, ws) == << >>

\* The vendor calls of destroying the entries ws of the table.
RECURSIVE DestroyCalls(_, _)
DestroyCalls(tbl, ws) ==
    IF ws = {} THEN << >>
    ELSE LET w == CHOOSE x \in ws : \A y \in ws : x <= y
         IN  Destroy(tbl[w]).calls \o DestroyCalls(tbl, ws \ {w})

\* The thread enters an operation.
Enter(t, o, a, first) ==
    /\ ~crashed
    /\ pc[t] = "Idle"
    /\ nOps < MaxOps
    /\ nOps' = nOps + 1
    /\ pc' = [pc EXCEPT ![t] = first]
    /\ op' = [op EXCEPT ![t] = o]
    /\ args' = [args EXCEPT ![t] = a]
    /\ result' = [result EXCEPT ![t] = "None"]
    /\ calls' = [calls EXCEPT ![t] = << >>]
    /\ UNCHANGED <<mgrVars, vendorVars, ctxVars, nrVars, auxVars>>

\* The thread is at step l of its operation.
At(t, l) == ~crashed /\ pc[t] = l

\* The operation returns r: the caller sees it at "Ret".
Return(t, r) ==
    /\ pc' = [pc EXCEPT ![t] = "Ret"]
    /\ result' = [result EXCEPT ![t] = r]

Goto(t, l) ==
    /\ pc' = [pc EXCEPT ![t] = l]
    /\ UNCHANGED result

\* The caller takes the result; the thread is free for its next call.
Ret(t) ==
    /\ At(t, "Ret")
    /\ pc' = [pc EXCEPT ![t] = "Idle"]
    /\ op' = [op EXCEPT ![t] = "None"]
    /\ args' = [args EXCEPT ![t] = NoArgs]
    /\ result' = [result EXCEPT ![t] = "None"]
    /\ calls' = [calls EXCEPT ![t] = << >>]
    /\ UNCHANGED <<mgrVars, vendorVars, envVars, ctxVars, nrVars, auxVars>>

\* std::mutex::lock blocks while another thread holds the mutex.
LockFree == m_contextMutex = 0

-----------------------------------------------------------------------------
(* DLSSContextManager::Initialize and InitializeNGX.                       *)

CallInitialize(t) ==
    \E d \in {NULL, Device} :
        Enter(t, "Initialize", [NoArgs EXCEPT !.device = d], "Init_Check")

\* An Initialize that initializes again whatever the flag says.
AlreadyInitialized_Ignored(initialized) == FALSE

\* if (m_initialized.load()): Initialize has nothing to do.
AlreadyInitialized(initialized) == initialized

\* if (m_initialized.load()) return Success; if (!device) return InvalidParameter.
Init_Check(t) ==
    /\ At(t, "Init_Check")
    /\ IF AlreadyInitialized(m_initialized) THEN Return(t, "Success")
       ELSE IF args[t].device = NULL THEN Return(t, "InvalidParameter")
       ELSE Goto(t, "Init_SetDevice")
    /\ UNCHANGED <<mgrVars, vendorVars, op, args, calls, envVars, ctxVars, nrVars, auxVars>>

\* m_device = device.
Init_SetDevice(t) ==
    /\ At(t, "Init_SetDevice")
    /\ m_device' = args[t].device
    /\ Goto(t, "Init_NGXInit")
    /\ UNCHANGED <<m_initialized, m_ngxParams, m_contexts, m_contextMutex,
                   m_dlssSRAvailable, m_dlssRRAvailable,
                   vendorVars, op, args, calls, envVars, ctxVars, nrVars, auxVars>>

\* NVSDK_NGX_D3D12_Init_with_ProjectID; on failure Initialize resets m_device.
Init_NGXInit(t) ==
    /\ At(t, "Init_NGXInit")
    /\ \E r \in VendorResults :
        /\ calls' = [calls EXCEPT ![t] = Append(@, "NGX_Init")]
        /\ IF NGX_FAILED(r)
           THEN /\ m_device' = NULL
                /\ Return(t, TranslateNGXResult(r))
           ELSE /\ UNCHANGED m_device
                /\ Goto(t, "Init_GetCaps")
    /\ UNCHANGED <<m_initialized, m_ngxParams, m_contexts, m_contextMutex,
                   m_dlssSRAvailable, m_dlssRRAvailable,
                   vendorVars, op, args, envVars, ctxVars, nrVars, auxVars>>

\* NVSDK_NGX_D3D12_GetCapabilityParameters(&m_ngxParams) and the two
\* availability reads; on failure NVSDK_NGX_D3D12_Shutdown1 and the reset.
Init_GetCaps(t) ==
    /\ At(t, "Init_GetCaps")
    /\ \E r \in VendorResults :
        IF NGX_FAILED(r)
        THEN /\ calls' = [calls EXCEPT ![t] = @ \o <<"GetCapabilityParameters", "NGX_Shutdown1">>]
             /\ m_device' = NULL
             /\ Return(t, TranslateNGXResult(r))
             /\ UNCHANGED <<m_ngxParams, m_dlssSRAvailable, m_dlssRRAvailable>>
        ELSE \E a \in CapabilityAnswers :
             /\ m_ngxParams' = CapabilityObject
             /\ m_dlssSRAvailable' = a[1]
             /\ m_dlssRRAvailable' = a[2]
             /\ calls' = [calls EXCEPT ![t] = Append(@, "GetCapabilityParameters")]
             /\ Goto(t, "Init_Store")
             /\ UNCHANGED m_device
    /\ UNCHANGED <<m_initialized, m_contexts, m_contextMutex,
                   vendorVars, op, args, envVars, ctxVars, nrVars, auxVars>>

\* m_initialized.store(true); return Success.
Init_Store(t) ==
    /\ At(t, "Init_Store")
    /\ m_initialized' = TRUE
    /\ Return(t, "Success")
    /\ UNCHANGED <<m_device, m_ngxParams, m_contexts, m_contextMutex,
                   m_dlssSRAvailable, m_dlssRRAvailable,
                   vendorVars, op, args, calls, envVars, ctxVars, nrVars, auxVars>>

-----------------------------------------------------------------------------
(* DLSSContextManager::Shutdown and DestroyAllContexts.                    *)

\* initAtCall records for the caller whether the registry was initialized
\* when Shutdown was invoked; Shutdown itself takes no argument.
CallShutdown(t) ==
    Enter(t, "Shutdown", [NoArgs EXCEPT !.initAtCall = m_initialized], "SD_Exchange")

\* A Shutdown that tears down whatever the flag was.
ExchangeGuard_Ignored(wasInitialized) == TRUE

\* What m_initialized.exchange(false) tells the caller: do the teardown?
ExchangeGuard(wasInitialized) == wasInitialized

\* if (!m_initialized.exchange(false)) return.
SD_Exchange(t) ==
    /\ At(t, "SD_Exchange")
    /\ m_initialized' = FALSE
    /\ IF ExchangeGuard(m_initialized) THEN Goto(t, "SD_ReadSize")
       ELSE Return(t, "Void")
    /\ UNCHANGED <<m_device, m_ngxParams, m_contexts, m_contextMutex,
                   m_dlssSRAvailable, m_dlssRRAvailable,
                   vendorVars, op, args, calls, envVars, ctxVars, nrVars, auxVars>>

\* size_t contextCount = m_contexts.size(): read without the mutex, used
\* only for a log line.
SD_ReadSize(t) ==
    /\ At(t, "SD_ReadSize")
    /\ Goto(t, "DA_Lock")
    /\ UNCHANGED <<mgrVars, vendorVars, op, args, calls, envVars, ctxVars, nrVars, auxVars>>

CallDestroyAllContexts(t) == Enter(t, "DestroyAllContexts", NoArgs, "DA_Lock")

\* std::lock_guard lock(m_contextMutex) of DestroyAllContexts.
DA_Lock(t) ==
    /\ At(t, "DA_Lock")
    /\ LockFree
    /\ m_contextMutex' = t
    /\ Goto(t, "DA_Clear")
    /\ UNCHANGED <<m_initialized, m_device, m_ngxParams, m_contexts,
                   m_dlssSRAvailable, m_dlssRRAvailable,
                   vendorVars, op, args, calls, envVars, ctxVars, nrVars, auxVars>>

\* m_contexts.clear() and the lock_guard's unlock; Shutdown goes on.
DA_Clear(t) ==
    /\ At(t, "DA_Clear")
    /\ m_contexts' = << >>
    /\ VendorDoes(t, DestroyCalls(m_contexts, DOMAIN m_contexts))
    /\ m_contextMutex' = 0
    /\ IF op[t] = "Shutdown" THEN Goto(t, "SD_Params") ELSE Return(t, "Void")
    /\ UNCHANGED <<m_initialized, m_device, m_ngxParams,
                   m_dlssSRAvailable, m_dlssRRAvailable,
                   crashed, op, args, envVars, ctxVars, nrVars, auxVars>>

\* if (m_ngxParams) { NVSDK_NGX_D3D12_DestroyParameters; m_ngxParams = nullptr; }
SD_Params(t) ==
    /\ At(t, "SD_Params")
    /\ m_ngxParams' = NULL
    /\ calls' = [calls EXCEPT ![t] =
                    IF m_ngxParams # NULL THEN Append(@, "DestroyParameters") ELSE @]
    /\ Goto(t, "SD_Device")
    /\ UNCHANGED <<m_initialized, m_device, m_contexts, m_contextMutex,
                   m_dlssSRAvailable, m_dlssRRAvailable,
                   vendorVars, op, args, envVars, ctxVars, nrVars, auxVars>>

\* if (m_device) { NVSDK_NGX_D3D12_Shutdown1; m_device.Reset(); } and the
\* reset of the two cached flags.
SD_Device(t) ==
    /\ At(t, "SD_Device")
    /\ m_device' = NULL
    /\ calls' = [calls EXCEPT ![t] =
                    IF m_device # NULL THEN @ \o <<"NGX_Shutdown1", "DeviceReset">> ELSE @]
    /\ m_dlssSRAvailable' = FALSE
    /\ m_dlssRRAvailable' = FALSE
    /\ Return(t, "Void")
    /\ UNCHANGED <<m_initialized, m_ngxParams, m_contexts, m_contextMutex,
                   vendorVars, op, args, envVars, ctxVars, nrVars, auxVars>>

-----------------------------------------------------------------------------
(* DLSSContextManager::CreateContext.                                      *)

CallCreateContext(t) ==
    \E v \in Views, p \in ParamSet :
        Enter(t, "CreateContext", [NoArgs EXCEPT !.view = v, !.params = p], "CC_Check")

\* A lookup that never finds the view.
ContextExists_Never(tbl, v) == FALSE

\* m_contexts.find(viewId) != m_contexts.end().
ContextExists(tbl, v) == v \in DOMAIN tbl

\* CreateContext storing the new context whatever Create returned.
StoresContext_Always(r) == TRUE

\* CreateContext stores the new context when Create returned Success.
StoresContext(r) == r = "Success"

\* CreateContext returns r: to its caller, or into UpdateContext, which
\* called it with the mutex unlocked.
CCReturn(t, r) ==
    IF op[t] = "UpdateContext"
    THEN /\ pc' = [pc EXCEPT ![t] = "UC_Relock"]
         /\ result' = [result EXCEPT ![t] = r]
    ELSE Return(t, r)

\* if (!m_initialized.load()) return NotInitialized.
CC_Check(t) ==
    /\ At(t, "CC_Check")
    /\ IF ~m_initialized THEN CCReturn(t, "NotInitialized") ELSE Goto(t, "CC_Lock")
    /\ UNCHANGED <<mgrVars, vendorVars, op, args, calls, envVars, ctxVars, nrVars, auxVars>>

\* std::lock_guard lock(m_contextMutex).
CC_Lock(t) ==
    /\ At(t, "CC_Lock")
    /\ LockFree
    /\ m_contextMutex' = t
    /\ Goto(t, "CC_Find")
    /\ UNCHANGED <<m_initialized, m_device, m_ngxParams, m_contexts,
                   m_dlssSRAvailable, m_dlssRRAvailable,
                   vendorVars, op, args, calls, envVars, ctxVars, nrVars, auxVars>>

\* The lookup, then the command allocator and list made through m_device.
\* m_device-> on a device that Shutdown has reset is a null dereference: the
\* process dies, or the call goes wrong either way.
CC_Find(t) ==
    /\ At(t, "CC_Find")
    /\ IF ContextExists(m_contexts, args[t].view)
       THEN /\ m_contextMutex' = 0
            /\ CCReturn(t, "ContextAlreadyExists")
            /\ UNCHANGED crashed
       ELSE \E hostAnswer \in IF m_device = NULL THEN {"crash", "failed", "ok"}
                              ELSE {"failed", "ok"} :
            CASE hostAnswer = "crash" ->
                    /\ crashed' = TRUE
                    /\ UNCHANGED <<m_contextMutex, pc, result>>
              [] hostAnswer = "failed" ->
                    /\ m_contextMutex' = 0
                    /\ CCReturn(t, "PlatformError")
                    /\ UNCHANGED crashed
              [] hostAnswer = "ok" ->
                    /\ Goto(t, "CC_Create")
                    /\ UNCHANGED <<m_contextMutex, crashed>>
    /\ UNCHANGED <<m_initialized, m_device, m_ngxParams, m_contexts,
                   m_dlssSRAvailable, m_dlssRRAvailable,
                   liveHandles, doubleRelease, op, args, calls, envVars, ctxVars, nrVars, auxVars>>

\* context->Create(...) on a new DLSSContext, the insertion on success (the
\* assignment destroys a context the entry held), the destruction of the
\* local context otherwise, and the lock_guard's unlock.
CC_Create(t) ==
    /\ At(t, "CC_Create")
    /\ \E ngxResult \in CreateAnswers({}) :
        LET r == Create(EmptyContext, m_ngxParams, args[t].params, ngxResult, NewHandle({}))
            stored == StoresContext(r.result)
        IN  /\ m_contexts' = IF stored THEN TableInsert(m_contexts, args[t].view, r.ctx)
                             ELSE m_contexts
            /\ VendorDoes(t, r.calls \o
                     (IF ~stored THEN Destroy(r.ctx).calls
                      ELSE IF args[t].view \in DOMAIN m_contexts
                      THEN Destroy(m_contexts[args[t].view]).calls
                      ELSE << >>))
            /\ CCReturn(t, r.result)
    /\ m_contextMutex' = 0
    /\ UNCHANGED <<m_initialized, m_device, m_ngxParams,
                   m_dlssSRAvailable, m_dlssRRAvailable,
                   crashed, op, args, envVars, ctxVars, nrVars, auxVars>>

-----------------------------------------------------------------------------
(* DLSSContextManager::UpdateContext.                                      *)

CallUpdateContext(t) ==
    \E v \in Views, p \in ParamSet :
        Enter(t, "UpdateContext", [NoArgs EXCEPT !.view = v, !.params = p], "UC_Lock")

\* std::lock_guard lock(m_contextMutex).
UC_Lock(t) ==
    /\ At(t, "UC_Lock")
    /\ LockFree
    /\ m_contextMutex' = t
    /\ Goto(t, "UC_Find")
    /\ UNCHANGED <<m_initialized, m_device, m_ngxParams, m_contexts,
                   m_dlssSRAvailable, m_dlssRRAvailable,
                   vendorVars, op, args, calls, envVars, ctxVars, nrVars, auxVars>>

\* An UpdateContext that keeps the mutex while it calls CreateContext.
MutexBeforeCreate_Held(t) == t

\* m_contextMutex.unlock() before UpdateContext calls CreateContext: who
\* holds the mutex then.
MutexBeforeCreate(t) == 0

\* An UpdateContext that stores the new parameters when it keeps the context.
KeptSnapshot_Overwritten(stored, params) == params

\* The snapshot of a context that UpdateContext keeps: the early return
\* writes nothing.
KeptSnapshot(stored, params) == stored

\* The lookup and NeedsRecreation; when it says so, m_contexts.erase(it) and
\* m_contextMutex.unlock(), and CreateContext is entered without the mutex.
UC_Find(t) ==
    /\ At(t, "UC_Find")
    /\ IF ~ContextExists(m_contexts, args[t].view)
       THEN /\ Return(t, "ContextNotFound")
            /\ m_contextMutex' = 0
            /\ UNCHANGED <<m_contexts, liveHandles, doubleRelease, calls>>
       ELSE IF ~NeedsRecreation(m_contexts[args[t].view].params, args[t].params)
       THEN /\ Return(t, "Success")
            /\ m_contextMutex' = 0
            /\ m_contexts' = [m_contexts EXCEPT ![args[t].view].params =
                                  KeptSnapshot(@, args[t].params)]
            /\ UNCHANGED <<liveHandles, doubleRelease, calls>>
       ELSE /\ m_contexts' = TableErase(m_contexts, args[t].view)
            /\ VendorDoes(t, Destroy(m_contexts[args[t].view]).calls)
            /\ m_contextMutex' = MutexBeforeCreate(t)
            /\ Goto(t, "CC_Check")
    /\ UNCHANGED <<m_initialized, m_device, m_ngxParams,
                   m_dlssSRAvailable, m_dlssRRAvailable,
                   crashed, op, args, envVars, ctxVars, nrVars, auxVars>>

\* m_contextMutex.lock() after CreateContext returned.
UC_Relock(t) ==
    /\ At(t, "UC_Relock")
    /\ LockFree
    /\ m_contextMutex' = t
    /\ Goto(t, "UC_Unlock")
    /\ UNCHANGED <<m_initialized, m_device, m_ngxParams, m_contexts,
                   m_dlssSRAvailable, m_dlssRRAvailable,
                   vendorVars, op, args, calls, envVars, ctxVars, nrVars, auxVars>>

\* An UpdateContext that returns from its recreation path with the mutex
\* still locked.
MutexAtReturn_Kept(t) == t

\* Who holds the mutex once UpdateContext's lock_guard is destroyed.
MutexAtReturn(t) == 0

\* An UpdateContext that reports Success whatever CreateContext returned.
UpdateResult_Success(r) == "Success"

\* return result: what UpdateContext returns after CreateContext returned r.
UpdateResult(r) == r

\* return result: the lock_guard unlocks.
UC_Unlock(t) ==
    /\ At(t, "UC_Unlock")
    /\ m_contextMutex' = MutexAtReturn(t)
    /\ Return(t, UpdateResult(result[t]))
    /\ UNCHANGED <<m_initialized, m_device, m_ngxParams, m_contexts,
                   m_dlssSRAvailable, m_dlssRRAvailable,
                   vendorVars, op, args, calls, envVars, ctxVars, nrVars, auxVars>>

-----------------------------------------------------------------------------
(* DLSSContextManager::DestroyContext and HasContext.                      *)

CallDestroyContext(t) ==
    \E v \in Views : Enter(t, "DestroyContext", [NoArgs EXCEPT !.view = v], "DC_Lock")

\* A DestroyContext that reports a missing view.
DestroyMissing_NotFound == "ContextNotFound"

\* What DestroyContext returns for a view that is not in the table.
DestroyMissing == "Success"

DC_Lock(t) ==
    /\ At(t, "DC_Lock")
    /\ LockFree
    /\ m_contextMutex' = t
    /\ Goto(t, "DC_Erase")
    /\ UNCHANGED <<m_initialized, m_device, m_ngxParams, m_contexts,
                   m_dlssSRAvailable, m_dlssRRAvailable,
                   vendorVars, op, args, calls, envVars, ctxVars, nrVars, auxVars>>

\* The lookup; m_contexts.erase(it) when the view is there; Success either way.
DC_Erase(t) ==
    /\ At(t, "DC_Erase")
    /\ m_contextMutex' = 0
    /\ IF ~ContextExists(m_contexts, args[t].view)
       THEN /\ Return(t, DestroyMissing)
            /\ UNCHANGED <<m_contexts, liveHandles, doubleRelease, calls>>
       ELSE /\ m_contexts' = TableErase(m_contexts, args[t].view)
            /\ VendorDoes(t, Destroy(m_contexts[args[t].view]).calls)
            /\ Return(t, "Success")
    /\ UNCHANGED <<m_initialized, m_device, m_ngxParams,
                   m_dlssSRAvailable, m_dlssRRAvailable,
                   crashed, op, args, envVars, ctxVars, nrVars, auxVars>>

CallHasContext(t) ==
    \E v \in Views : Enter(t, "HasContext", [NoArgs EXCEPT !.view = v], "HC_Lock")

HC_Lock(t) ==
    /\ At(t, "HC_Lock")
    /\ LockFree
    /\ m_contextMutex' = t
    /\ Goto(t, "HC_Find")
    /\ UNCHANGED <<m_initialized, m_device, m_ngxParams, m_contexts,
                   m_dlssSRAvailable, m_dlssRRAvailable,
                   vendorVars, op, args, calls, envVars, ctxVars, nrVars, auxVars>>

HC_Find(t) ==
    /\ At(t, "HC_Find")
    /\ m_contextMutex' = 0
    /\ Return(t, IF ContextExists(m_contexts, args[t].view) THEN "true" ELSE "false")
    /\ UNCHANGED <<m_initialized, m_device, m_ngxParams, m_contexts,
                   m_dlssSRAvailable, m_dlssRRAvailable,
                   vendorVars, op, args, calls, envVars, ctxVars, nrVars, auxVars>>

-----------------------------------------------------------------------------
(* DLSSContextManager::Execute.                                            *)

CallExecute(t) ==
    \E v \in Views, c \in {NULL, CmdList}, m \in ExecModes :
        Enter(t, "Execute", [NoArgs EXCEPT !.view = v, !.cmdList = c, !.mode = m], "EX_Check")

\* An Execute that looks at the command list before the initialized flag.
ExecutePrecheck_CmdListFirst(initialized, cmdList) ==
    IF cmdList = NULL THEN "InvalidParameter"
    ELSE IF ~initialized THEN "NotInitialized"
    ELSE "Pass"

\* if (!m_initialized.load()) return NotInitialized; if (!cmdList) return
\* InvalidParameter.
ExecutePrecheck(initialized, cmdList) ==
    IF ~initialized THEN "NotInitialized"
    ELSE IF cmdList = NULL THEN "InvalidParameter"
    ELSE "Pass"

\* The two checks made before the mutex is taken.
EX_Check(t) ==
    /\ At(t, "EX_Check")
    /\ LET r == ExecutePrecheck(m_initialized, args[t].cmdList)
       IN  IF r = "Pass" THEN Goto(t, "EX_Lock") ELSE Return(t, r)
    /\ UNCHANGED <<mgrVars, vendorVars, op, args, calls, envVars, ctxVars, nrVars, auxVars>>

EX_Lock(t) ==
    /\ At(t, "EX_Lock")
    /\ LockFree
    /\ m_contextMutex' = t
    /\ Goto(t, "EX_Run")
    /\ UNCHANGED <<m_initialized, m_device, m_ngxParams, m_contexts,
                   m_dlssSRAvailable, m_dlssRRAvailable,
                   vendorVars, op, args, calls, envVars, ctxVars, nrVars, auxVars>>

\* An Execute that takes a missing view for nothing to do.
ExecuteMissing_Skips == "Success"

\* What Execute returns for a view that is not in the table.
ExecuteMissing == "ContextNotFound"

\* The lookup and it->second->Execute(cmdList, params), under the mutex.
EX_Run(t) ==
    /\ At(t, "EX_Run")
    /\ m_contextMutex' = 0
    /\ IF ~ContextExists(m_contexts, args[t].view)
       THEN /\ Return(t, ExecuteMissing)
            /\ UNCHANGED <<m_contexts, liveHandles, doubleRelease, calls>>
       ELSE \E ngxResult \in VendorResults :
            LET r == Execute(m_contexts[args[t].view], m_ngxParams, args[t].mode, ngxResult)
            IN  /\ m_contexts' = [m_contexts EXCEPT ![args[t].view] = r.ctx]
                /\ VendorDoes(t, r.calls)
                /\ Return(t, r.result)
    /\ UNCHANGED <<m_initialized, m_device, m_ngxParams,
                   m_dlssSRAvailable, m_dlssRRAvailable,
                   crashed, op, args, envVars, ctxVars, nrVars, auxVars>>

-----------------------------------------------------------------------------
(* DLSSContextManager::GetCapabilities, GetOptimalSettings, GetStats.      *)

\* A non-null output pointer.
OutStruct == 1

Queries == {"GetCapabilities", "GetOptimalSettings", "GetStats"}

CallGetCapabilities(t) ==
    \E o \in {NULL, OutStruct} :
        Enter(t, "GetCapabilities", [NoArgs EXCEPT !.outPtr = o], "Q_Check")

CallGetOptimalSettings(t) ==
    \E o \in {NULL, OutStruct}, m \in ExecModes :
        Enter(t, "GetOptimalSettings", [NoArgs EXCEPT !.outPtr = o, !.mode = m], "Q_Check")

CallGetStats(t) ==
    \E o \in {NULL, OutStruct}, m \in ExecModes :
        Enter(t, "GetStats", [NoArgs EXCEPT !.outPtr = o, !.mode = m], "Q_Check")

\* The vendor entry point the query calls with m_ngxParams.
QueryEntryPoint(o, mode) ==
    CASE o = "GetCapabilities"    -> "Parameter_Get"
      [] o = "GetOptimalSettings" ->
            IF mode = DLSS_Mode_RayReconstruction THEN "DLSSD_GetOptimalSettings"
            ELSE "DLSS_GetOptimalSettings"
      [] o = "GetStats"           ->
            IF mode = DLSS_Mode_RayReconstruction THEN "DLSSD_GetStats"
            ELSE "DLSS_GetStats"

\* What the query returns when the vendor answered ngxResult: GetCapabilities
\* does not look at the results of its three parameter reads.
QueryResult(o, ngxResult) ==
    IF o = "GetCapabilities" THEN "Success"
    ELSE IF NGX_FAILED(ngxResult) THEN TranslateNGXResult(ngxResult)
    ELSE "Success"

\* A query that fills the caller's structure whatever the vendor answered.
QueryWrites_Always(o, ngxResult) == TRUE

\* Does the query write the caller's structure? GetCapabilities writes its
\* fields around the three parameter reads; GetOptimalSettings and GetStats
\* write theirs after the NVSDK_NGX_FAILED test.
QueryWrites(o, ngxResult) == o = "GetCapabilities" \/ ~NGX_FAILED(ngxResult)

\* What a vendor call given the parameter object may do: with a null object
\* the vendor dereferences a null pointer, and the process may die.
QueryAnswers(ngxParams) ==
    IF ngxParams = NULL THEN VendorResults \cup {"crash"} ELSE VendorResults

\* if (!m_initialized.load()) return NotInitialized; if (!out) return
\* InvalidParameter. The caller's structure is as the caller made it.
Q_Check(t) ==
    /\ At(t, "Q_Check")
    /\ IF ~m_initialized THEN Return(t, "NotInitialized")
       ELSE IF args[t].outPtr = NULL THEN Return(t, "InvalidParameter")
       ELSE Goto(t, "Q_Use")
    /\ out' = [out EXCEPT ![t] = "untouched"]
    /\ UNCHANGED <<mgrVars, vendorVars, op, args, calls, envVars, ctxVars, nrVars, snapVars, fnVars, liteVars>>

\* The vendor call with m_ngxParams, made without any mutex, and the writes
\* to the caller's structure.
Q_Use(t) ==
    /\ At(t, "Q_Use")
    /\ \E answer \in QueryAnswers(m_ngxParams) :
        IF answer = "crash"
        THEN /\ crashed' = TRUE
             /\ out' = [out EXCEPT ![t] = IF op[t] = "GetCapabilities"
                                          THEN "written" ELSE "untouched"]
             /\ UNCHANGED <<pc, result, calls>>
        ELSE /\ calls' = [calls EXCEPT ![t] = Append(@, QueryEntryPoint(op[t], args[t].mode))]
             /\ Return(t, QueryResult(op[t], answer))
             /\ out' = [out EXCEPT ![t] = IF QueryWrites(op[t], answer)
                                          THEN "written" ELSE "untouched"]
             /\ UNCHANGED crashed
    /\ UNCHANGED <<mgrVars, liveHandles, doubleRelease, op, args, envVars, ctxVars, nrVars,
                   snapVars, fnVars, liteVars>>

-----------------------------------------------------------------------------
(* The steps that touch the shared objects of the registry.                *)

\* The steps whose code reads or changes m_contexts: find, operator[], erase,
\* clear, and the size() Shutdown reads for its log line.
TableAccessSteps ==
    {"CC_Find", "CC_Create", "UC_Find", "DC_Erase", "HC_Find", "EX_Run",
     "DA_Clear", "SD_ReadSize"}

\* The steps whose code changes m_contexts.
TableWriteSteps == {"CC_Create", "UC_Find", "DC_Erase", "DA_Clear"}

\* The steps that lock m_contextMutex.
TableLockSteps ==
    {"CC_Lock", "UC_Lock", "UC_Relock", "DC_Lock", "HC_Lock", "EX_Lock", "DA_Lock"}

\* Thread t is at a step whose code hands m_ngxParams to the vendor: the
\* preset writes of Create, the evaluation of Execute on a context that is
\* there, the reads of the three queries, the destruction in Shutdown.
UsesParamObject(t) ==
    \/ pc[t] \in {"CC_Create", "Q_Use", "SD_Params"}
    \/ pc[t] = "EX_Run" /\ args[t].view \in DOMAIN m_contexts

-----------------------------------------------------------------------------
(* The registry under concurrent callers.                                  *)

Next ==
    \E t \in Threads :
        \/ CallInitialize(t) \/ Init_Check(t) \/ Init_SetDevice(t)
        \/ Init_NGXInit(t) \/ Init_GetCaps(t) \/ Init_Store(t)
        \/ CallShutdown(t) \/ SD_Exchange(t) \/ SD_ReadSize(t)
        \/ SD_Params(t) \/ SD_Device(t)
        \/ CallDestroyAllContexts(t) \/ DA_Lock(t) \/ DA_Clear(t)
        \/ CallCreateContext(t) \/ CC_Check(t) \/ CC_Lock(t) \/ CC_Find(t) \/ CC_Create(t)
        \/ CallUpdateContext(t) \/ UC_Lock(t) \/ UC_Find(t) \/ UC_Relock(t) \/ UC_Unlock(t)
        \/ CallDestroyContext(t) \/ DC_Lock(t) \/ DC_Erase(t)
        \/ CallHasContext(t) \/ HC_Lock(t) \/ HC_Find(t)
        \/ CallExecute(t) \/ EX_Check(t) \/ EX_Lock(t) \/ EX_Run(t)
        \/ Ret(t)

Spec == Init /\ [][Next]_vars

\* The registry with the capability queries among the calls.
NextQ ==
    \/ Next
    \/ \E t \in Threads :
        \/ CallGetCapabilities(t) \/ CallGetOptimalSettings(t) \/ CallGetStats(t)
        \/ Q_Check(t) \/ Q_Use(t)

SpecQ == Init /\ [][NextQ]_vars

-----------------------------------------------------------------------------
(* SpecEvt: the pending execute snapshot. The application's threads call   *)
(* SetCurrentView and SetExecuteParams; the host runs OnDLSSRenderEvent,   *)
(* which reads the snapshot and calls Execute. The registry is initialized *)
(* and holds a context for view 1.                                         *)

\* SetCurrentView(viewId) { m_currentViewId = viewId; }: one atomic store,
\* no mutex.
CallSetCurrentView(t) ==
    \E v \in Views :
        Enter(t, "SetCurrentView", [NoArgs EXCEPT !.view = v], "SV_Store")

SV_Store(t) ==
    /\ At(t, "SV_Store")
    /\ m_currentViewId' = args[t].view
    /\ Return(t, "void")
    /\ UNCHANGED <<mgrVars, vendorVars, op, args, calls, envVars, ctxVars, nrVars,
                   queryVars, fnVars, liteVars, m_executeParams, m_executeParamsMutex, evt>>

\* SetExecuteParams(params), the caller's structure being the one prepared
\* for view v.
CallSetExecuteParams(t) ==
    \E v \in Views :
        Enter(t, "SetExecuteParams",
              [NoArgs EXCEPT !.view = v, !.mode = ModeFor(v)], "SP_Lock")

\* std::lock_guard<std::mutex> lock(m_executeParamsMutex).
SP_Lock(t) ==
    /\ At(t, "SP_Lock")
    /\ m_executeParamsMutex = 0
    /\ m_executeParamsMutex' = t
    /\ Goto(t, "SP_CopyMode")
    /\ UNCHANGED <<mgrVars, vendorVars, op, args, calls, envVars, ctxVars, nrVars,
                   queryVars, fnVars, liteVars, m_currentViewId, m_executeParams, evt>>

\* m_executeParams = params copies the structure member by member: the mode
\* first,
SP_CopyMode(t) ==
    /\ At(t, "SP_CopyMode")
    /\ m_executeParams' = [m_executeParams EXCEPT !.mode = args[t].mode]
    /\ Goto(t, "SP_CopyRest")
    /\ UNCHANGED <<mgrVars, vendorVars, op, args, calls, envVars, ctxVars, nrVars,
                   queryVars, fnVars, liteVars, m_currentViewId, m_executeParamsMutex, evt>>

\* A SetExecuteParams that returns with the snapshot mutex locked.
SnapshotMutexAtReturn_Kept(t) == t

\* Who holds the snapshot mutex once SetExecuteParams' lock_guard is
\* destroyed.
SnapshotMutexAtReturn(t) == 0

\* then the textures and the rest; the guard unlocks as the function returns.
SP_CopyRest(t) ==
    /\ At(t, "SP_CopyRest")
    /\ m_executeParams' = [m_executeParams EXCEPT !.textures = args[t].view]
    /\ m_executeParamsMutex' = SnapshotMutexAtReturn(t)
    /\ Return(t, "void")
    /\ UNCHANGED <<mgrVars, vendorVars, op, args, calls, envVars, ctxVars, nrVars,
                   queryVars, fnVars, liteVars, m_currentViewId, evt>>

\* OnDLSSRenderEvent(eventID): an event that is not the plugin's returns at
\* once. cmdList is NULL when the host has no recording state or no command
\* list to give.
CallRenderEvent(t) ==
    \E own \in BOOLEAN, c \in {NULL, CmdList} :
        Enter(t, "OnDLSSRenderEvent", [NoArgs EXCEPT !.cmdList = c],
              IF own THEN "RE_Check" ELSE "Ret")

\* if (!mgr.IsInitialized()) return; ... if (!CommandRecordingState(...) ||
\* !recordingState.commandList) return.
RE_Check(t) ==
    /\ At(t, "RE_Check")
    /\ IF ~m_initialized \/ args[t].cmdList = NULL THEN Return(t, "void")
       ELSE Goto(t, "RE_ReadView")
    /\ UNCHANGED <<mgrVars, vendorVars, op, args, calls, envVars, ctxVars, nrVars, auxVars>>

\* uint32_t viewId = mgr.GetCurrentView(); const DLSSExecuteParams& params =
\* mgr.GetExecuteParams(): the view id is loaded, the parameters are taken by
\* reference and read later. Then Execute's two checks.
RE_ReadView(t) ==
    /\ At(t, "RE_ReadView")
    /\ evt' = [evt EXCEPT ![t] = [NoEvent EXCEPT !.view = m_currentViewId]]
    /\ IF ~m_initialized THEN Return(t, "NotInitialized")
       ELSE Goto(t, "RE_Lock")
    /\ UNCHANGED <<mgrVars, vendorVars, op, args, calls, envVars, ctxVars, nrVars,
                   queryVars, fnVars, liteVars, m_currentViewId, m_executeParams, m_executeParamsMutex>>

\* Execute: std::lock_guard<std::mutex> lock(m_contextMutex).
RE_Lock(t) ==
    /\ At(t, "RE_Lock")
    /\ LockFree
    /\ m_contextMutex' = t
    /\ Goto(t, "RE_Find")
    /\ UNCHANGED <<m_initialized, m_device, m_ngxParams, m_contexts,
                   m_dlssSRAvailable, m_dlssRRAvailable,
                   vendorVars, op, args, calls, envVars, ctxVars, nrVars, auxVars>>

\* Execute: the lookup; for a view that is there, params.mode is read through
\* the reference.
RE_Find(t) ==
    /\ At(t, "RE_Find")
    /\ IF ~ContextExists(m_contexts, evt[t].view)
       THEN /\ m_contextMutex' = 0
            /\ Return(t, ExecuteMissing)
            /\ UNCHANGED evt
       ELSE /\ evt' = [evt EXCEPT ![t].mode = m_executeParams.mode]
            /\ Goto(t, "RE_Run")
            /\ UNCHANGED m_contextMutex
    /\ UNCHANGED <<m_initialized, m_device, m_ngxParams, m_contexts,
                   m_dlssSRAvailable, m_dlssRRAvailable,
                   vendorVars, op, args, calls, envVars, ctxVars, nrVars,
                   queryVars, fnVars, liteVars, m_currentViewId, m_executeParams, m_executeParamsMutex>>

\* it->second->Execute(cmdList, params): the evaluation descriptor is built
\* from the rest of the structure, read through the reference; the vendor
\* evaluates; the table mutex is released as Execute returns.
RE_Run(t) ==
    /\ At(t, "RE_Run")
    /\ evt' = [evt EXCEPT ![t].textures = m_executeParams.textures]
    /\ m_contextMutex' = 0
    /\ \E ngxResult \in VendorResults :
        LET r == Execute(m_contexts[evt[t].view], m_ngxParams, evt[t].mode, ngxResult)
        IN  /\ m_contexts' = [m_contexts EXCEPT ![evt[t].view] = r.ctx]
            /\ VendorDoes(t, r.calls)
            /\ Return(t, r.result)
    /\ UNCHANGED <<m_initialized, m_device, m_ngxParams,
                   m_dlssSRAvailable, m_dlssRRAvailable,
                   crashed, op, args, envVars, ctxVars, nrVars,
                   queryVars, fnVars, liteVars, m_currentViewId, m_executeParams, m_executeParamsMutex>>

\* The steps whose code reads or writes the snapshot's members.
SnapshotWriteSteps == {"SV_Store", "SP_CopyMode", "SP_CopyRest"}
SnapshotReadSteps  == {"RE_ReadView", "RE_Find", "RE_Run"}

\* The registry after Initialize(Device) and CreateContext(1, ParamsBase).
InitEvt ==
    /\ m_initialized = TRUE
    /\ m_device = Device
    /\ m_ngxParams = CapabilityObject
    /\ m_contexts = (1 :> [handle |-> 1, params |-> ParamsBase])
    /\ m_contextMutex = 0
    /\ m_dlssSRAvailable = TRUE
    /\ m_dlssRRAvailable = FALSE
    /\ liveHandles = {1}
    /\ doubleRelease = FALSE
    /\ crashed = FALSE
    /\ nOps = 0
    /\ pc = [t \in Threads |-> "Idle"]
    /\ op = [t \in Threads |-> "None"]
    /\ args = [t \in Threads |-> NoArgs]
    /\ result = [t \in Threads |-> "None"]
    /\ calls = [t \in Threads |-> << >>]
    /\ ctx = << >>
    /\ ctxLast = << >>
    /\ ctxOp = << >>
    /\ nrStored = ZeroParams
    /\ nrNew = ZeroParams
    /\ nrOut = FALSE
    /\ AuxInit

NextEvt ==
    \E t \in Threads :
        \/ CallSetCurrentView(t) \/ SV_Store(t)
        \/ CallSetExecuteParams(t) \/ SP_Lock(t) \/ SP_CopyMode(t) \/ SP_CopyRest(t)
        \/ CallRenderEvent(t) \/ RE_Check(t) \/ RE_ReadView(t)
        \/ RE_Lock(t) \/ RE_Find(t) \/ RE_Run(t)
        \/ Ret(t)

SpecEvt == InitEvt /\ [][NextEvt]_vars

-----------------------------------------------------------------------------
(* SpecFn: the translators applied to arguments drawn from every vendor    *)
(* result code of the model and every pair of quality values up to         *)
(* MaxQualityValue, one more than the last defined tier, and to every pair *)
(* of feature-flag bitmasks of MaxFlagBit + 1 bits.                        *)

\* The vendor result codes: success, the failures, and a code that is
\* neither the success code nor one NVSDK_NGX_FAILED accepts.
NGXCodes == {NGX_Success} \cup NGXFailureCodes \cup {"Unlisted"}

\* The application's result codes.
DLSSResults ==
    {"Success", "NotInitialized", "FeatureNotSupported", "InvalidParameter",
     "OutOfMemory", "ContextNotFound", "ContextAlreadyExists", "DriverOutOfDate",
     "PlatformError", "NGXError"}

\* The six defined tiers and the values a caller can pass beside them.
DefinedQualities == DLSS_Quality_MaxPerformance..DLSS_Quality_DLAA
QualityValues == 0..MaxQualityValue

\* The feature-flag bitmasks: every combination of the bits 0..MaxFlagBit.
FlagMasks == 0..(2^(MaxFlagBit + 1) - 1)

\* The bits set in a bitmask, and the bitmask of a set of bits.
Bits(n) == {i \in 0..MaxFlagBit : HasFlag(n, 2^i)}
RECURSIVE MaskOf(_)
MaskOf(bs) == IF bs = {} THEN 0
              ELSE LET b == CHOOSE x \in bs : TRUE IN 2^b + MaskOf(bs \ {b})
\* a | b.
BitOr(a, b) == MaskOf(Bits(a) \cup Bits(b))

\* The project IDs passed to Initialize: a null pointer, the empty string
\* and a project GUID.
ProjectIds == {"nullptr", "", "a0f57b54-1daf-4934-90ae-c4035c19df04"}
AppIds     == 0..MaxAppId

\* InitializeNGX: the local appIdentifier as it is filled in.
AppIdentifier(appId, projectId) ==
    IF projectId # "nullptr" /\ projectId # ""
    THEN [IdentifierType |-> "Project_Id", ProjectId |-> projectId, EngineType |-> "UNITY"]
    ELSE [IdentifierType |-> "Application_Id", ApplicationId |-> appId]

\* InitializeNGX: the vendor initialization it calls and the identity
\* arguments it passes. appIdentifier is not among them.
NGXInitCall(appId, projectId) ==
    [entry |-> "NVSDK_NGX_D3D12_Init_with_ProjectID",
     args  |-> [projectId  |-> IF projectId # "nullptr" THEN projectId ELSE "",
                engineType |-> "UNITY"]]

\* The arguments SpecFn starts from: every code with every pair of quality
\* values, every pair of bitmasks, and every application ID with every
\* project ID.
FnInputs ==
    {[NoFnIn EXCEPT !.code = c, !.quality = q, !.quality2 = q2] :
        c \in NGXCodes, q \in QualityValues, q2 \in QualityValues}
    \cup {[NoFnIn EXCEPT !.flags = a, !.flags2 = b] : a \in FlagMasks, b \in FlagMasks}
    \cup {[NoFnIn EXCEPT !.appId = a, !.projectId = p] : a \in AppIds, p \in ProjectIds}

InitFn ==
    /\ m_initialized = FALSE /\ m_device = NULL /\ m_ngxParams = NULL
    /\ m_contexts = << >> /\ m_contextMutex = 0
    /\ m_dlssSRAvailable = FALSE /\ m_dlssRRAvailable = FALSE
    /\ liveHandles = {} /\ doubleRelease = FALSE /\ crashed = FALSE /\ nOps = 0
    /\ pc = << >> /\ op = << >> /\ args = << >> /\ result = << >> /\ calls = << >>
    /\ ctx = << >> /\ ctxLast = << >> /\ ctxOp = << >>
    /\ nrStored = ZeroParams /\ nrNew = ZeroParams /\ nrOut = FALSE
    /\ out = NoOutput
    /\ m_currentViewId = 0
    /\ m_executeParams = ExecuteParamsFor(0)
    /\ m_executeParamsMutex = 0
    /\ evt = [t \in Threads |-> NoEvent]
    /\ fnIn \in FnInputs
    /\ fnOut = NoFnOut
    /\ fnDone = {}
    /\ LiteInit

FnFrame == UNCHANGED <<fnIn, mgrVars, vendorVars, envVars, threadVars, ctxVars, nrVars,
                       queryVars, snapVars, liteVars>>

\* TranslateNGXResult(fnIn.code).
Fn_TranslateNGXResult ==
    /\ "TranslateNGXResult" \notin fnDone
    /\ fnOut' = [fnOut EXCEPT !.result = TranslateNGXResult(fnIn.code),
                              !.logLines = TranslateLogLines(fnIn.code)]
    /\ fnDone' = fnDone \cup {"TranslateNGXResult"}
    /\ FnFrame

\* ToNGXPerfQuality(fnIn.quality) and ToNGXPerfQuality(fnIn.quality2).
Fn_ToNGXPerfQuality ==
    /\ "ToNGXPerfQuality" \notin fnDone
    /\ fnOut' = [fnOut EXCEPT !.perfQuality = ToNGXPerfQuality(fnIn.quality),
                              !.perfQuality2 = ToNGXPerfQuality(fnIn.quality2)]
    /\ fnDone' = fnDone \cup {"ToNGXPerfQuality"}
    /\ FnFrame

\* ToNGXFeatureFlags of fnIn.flags, of fnIn.flags2 and of their bitwise or.
Fn_ToNGXFeatureFlags ==
    /\ "ToNGXFeatureFlags" \notin fnDone
    /\ fnOut' = [fnOut EXCEPT !.ngxFlags = ToNGXFeatureFlags(fnIn.flags),
                              !.ngxFlags2 = ToNGXFeatureFlags(fnIn.flags2),
                              !.ngxFlagsOr = ToNGXFeatureFlags(BitOr(fnIn.flags, fnIn.flags2))]
    /\ fnDone' = fnDone \cup {"ToNGXFeatureFlags"}
    /\ FnFrame

\* InitializeNGX(fnIn.appId, fnIn.projectId, ...) up to its vendor
\* initialization call.
Fn_InitializeNGX ==
    /\ "InitializeNGX" \notin fnDone
    /\ fnOut' = [fnOut EXCEPT !.appIdentifier = AppIdentifier(fnIn.appId, fnIn.projectId),
                              !.initCall = NGXInitCall(fnIn.appId, fnIn.projectId)]
    /\ fnDone' = fnDone \cup {"InitializeNGX"}
    /\ FnFrame

NextFn ==
    \/ Fn_TranslateNGXResult \/ Fn_ToNGXPerfQuality \/ Fn_ToNGXFeatureFlags
    \/ Fn_InitializeNGX

SpecFn == InitFn /\ [][NextFn]_vars

-----------------------------------------------------------------------------
(* SpecLive: the registry's operations and SetExecuteParams called by      *)
(* threads that the scheduler does not leave waiting forever: a thread     *)
(* inside an operation whose next step stays possible takes it. Calling an *)
(* operation is up to the caller and is not forced.                        *)

\* The next step of thread t inside the operation it has called.
StepInside(t) ==
    \/ Init_Check(t) \/ Init_SetDevice(t) \/ Init_NGXInit(t) \/ Init_GetCaps(t)
    \/ Init_Store(t)
    \/ SD_Exchange(t) \/ SD_ReadSize(t) \/ SD_Params(t) \/ SD_Device(t)
    \/ DA_Lock(t) \/ DA_Clear(t)
    \/ CC_Check(t) \/ CC_Lock(t) \/ CC_Find(t) \/ CC_Create(t)
    \/ UC_Lock(t) \/ UC_Find(t) \/ UC_Relock(t) \/ UC_Unlock(t)
    \/ DC_Lock(t) \/ DC_Erase(t)
    \/ HC_Lock(t) \/ HC_Find(t)
    \/ EX_Check(t) \/ EX_Lock(t) \/ EX_Run(t)
    \/ SP_Lock(t) \/ SP_CopyMode(t) \/ SP_CopyRest(t)

NextLive ==
    \/ Next
    \/ \E t \in Threads :
        \/ CallSetExecuteParams(t) \/ SP_Lock(t) \/ SP_CopyMode(t) \/ SP_CopyRest(t)

SpecLive ==
    /\ Init
    /\ [][NextLive]_vars
    /\ \A t \in Threads : WF_vars(StepInside(t))

-----------------------------------------------------------------------------
(* SpecSeq: the registry's operations called one at a time: a thread calls *)
(* an operation only when no other thread is inside one.                   *)

\* No thread is inside an operation or has a result to take.
Quiet == \A u \in Threads : pc[u] = "Idle"

NextSeq ==
    \E t \in Threads :
        \/ Quiet /\ CallInitialize(t)
        \/ Quiet /\ CallShutdown(t)
        \/ Quiet /\ CallDestroyAllContexts(t)
        \/ Quiet /\ CallCreateContext(t)
        \/ Quiet /\ CallUpdateContext(t)
        \/ Quiet /\ CallDestroyContext(t)
        \/ Quiet /\ CallHasContext(t)
        \/ Quiet /\ CallExecute(t)
        \/ Init_Check(t) \/ Init_SetDevice(t)
        \/ Init_NGXInit(t) \/ Init_GetCaps(t) \/ Init_Store(t)
        \/ SD_Exchange(t) \/ SD_ReadSize(t) \/ SD_Params(t) \/ SD_Device(t)
        \/ DA_Lock(t) \/ DA_Clear(t)
        \/ CC_Check(t) \/ CC_Lock(t) \/ CC_Find(t) \/ CC_Create(t)
        \/ UC_Lock(t) \/ UC_Find(t) \/ UC_Relock(t) \/ UC_Unlock(t)
        \/ DC_Lock(t) \/ DC_Erase(t)
        \/ HC_Lock(t) \/ HC_Find(t)
        \/ EX_Check(t) \/ EX_Lock(t) \/ EX_Run(t)
        \/ Ret(t)

SpecSeq == Init /\ [][NextSeq]_vars

-----------------------------------------------------------------------------
(* SpecLite: the Lite plugin (DLSSPluginLite.cpp), its exported functions   *)
(* and render events called one after the other. The handle table maps the *)
(* plugin's integer handles to vendor features; the counter wraps at        *)
(* LiteCapacity, which stands for the 1024 of the code (only the counter     *)
(* modulo the wrap is ever read, and 2^32 is a multiple of 1024).           *)

\* The handle values the caller passes: every value the allocator can hand
\* out, and DLSS_INVALID_FEATURE_HANDLE.
LiteHandleArgs == (0..(LiteCapacity - 1)) \cup {DLSS_INVALID_FEATURE_HANDLE}

\* g_featureHandles[h] = f, and g_featureHandles.erase(h).
LiteInsert(tbl, h, f) == [x \in (DOMAIN tbl) \cup {h} |-> IF x = h THEN f ELSE tbl[x]]
LiteErase(tbl, h)     == [x \in (DOMAIN tbl) \ {h} |-> tbl[x]]

\* An allocator that steps over handle values that are taken.
RECURSIVE NextFreeFrom(_, _, _)
NextFreeFrom(counter, tbl, n) ==
    IF n = 0 THEN DLSS_INVALID_FEATURE_HANDLE
    ELSE IF counter % LiteCapacity \notin DOMAIN tbl THEN counter % LiteCapacity
    ELSE NextFreeFrom(counter + 1, tbl, n - 1)
DLSS_AllocateFeatureHandle_NextFree(counter, tbl) ==
    LET handle == NextFreeFrom(counter, tbl, LiteCapacity)
    IN  IF handle = DLSS_INVALID_FEATURE_HANDLE
        THEN [result |-> DLSS_INVALID_FEATURE_HANDLE, counter |-> counter, tbl |-> tbl]
        ELSE [result |-> handle, counter |-> (handle + 1) % LiteCapacity,
              tbl |-> LiteInsert(tbl, handle, NULL)]

\* DLSS_AllocateFeatureHandle: the value returned, the counter and the table
\* afterwards.
DLSS_AllocateFeatureHandle(counter, tbl) ==
    LET handle == counter % LiteCapacity
    IN  IF handle \in DOMAIN tbl
        THEN [result |-> DLSS_INVALID_FEATURE_HANDLE, counter |-> counter, tbl |-> tbl]
        ELSE [result |-> handle, counter |-> (counter + 1) % LiteCapacity,
              tbl |-> LiteInsert(tbl, handle, NULL)]

\* DLSS_FreeFeatureHandle: the entry is erased, no vendor call is made.
DLSS_FreeFeatureHandle(tbl, h) ==
    IF h \notin DOMAIN tbl THEN [result |-> -1, tbl |-> tbl]
    ELSE [result |-> 0, tbl |-> LiteErase(tbl, h)]

\* OnDLSSRenderEvent, case DLSS_Event_CreateFeature: the vendor create and,
\* when it succeeds, the assignment to the entry of params->handle.
LiteCreateFeature(tbl, h, ngxResult, newHandle) ==
    IF NGX_FAILED(ngxResult)
    THEN [tbl |-> tbl, calls |-> <<[call |-> "CreateFeature", handle |-> NULL]>>]
    ELSE [tbl |-> LiteInsert(tbl, h, newHandle),
          calls |-> <<[call |-> "CreateFeature", handle |-> newHandle]>>]

\* OnDLSSRenderEvent, case DLSS_Event_EvaluateFeature.
LiteEvaluateFeature(tbl, h) ==
    IF h \notin DOMAIN tbl \/ tbl[h] = NULL
    THEN [tbl |-> tbl, calls |-> << >>]
    ELSE [tbl |-> tbl, calls |-> <<[call |-> "EvaluateFeature", handle |-> tbl[h]]>>]

\* OnDLSSRenderEvent, case DLSS_Event_DestroyFeature.
LiteDestroyFeature(tbl, h) ==
    IF h \notin DOMAIN tbl
    THEN [tbl |-> tbl, calls |-> << >>]
    ELSE [tbl |-> LiteErase(tbl, h),
          calls |-> IF tbl[h] # NULL THEN <<[call |-> "ReleaseFeature", handle |-> tbl[h]]>>
                    ELSE << >>]

\* The releases DLSS_Shutdown_D3D12 makes for the entries hs of the table.
RECURSIVE LiteReleaseAll(_, _)
LiteReleaseAll(tbl, hs) ==
    IF hs = {} THEN << >>
    ELSE LET h == CHOOSE x \in hs : \A y \in hs : x <= y
         IN  (IF tbl[h] # NULL THEN <<[call |-> "ReleaseFeature", handle |-> tbl[h]]>>
              ELSE << >>) \o LiteReleaseAll(tbl, hs \ {h})

\* The vendor features a sequence of calls of the Lite plugin creates.
LiteCreatedBy(cs) ==
    {cs[i].handle : i \in {j \in 1..Len(cs) : cs[j].call = "CreateFeature"}} \ {NULL}

\* The vendor's side of the calls cs. NVSDK_NGX_D3D12_Shutdown1 ends the
\* runtime and with it every feature still live.
LiteVendorApply(cs) ==
    /\ liveHandles' =
          IF \E i \in 1..Len(cs) : cs[i].call = "NGX_Shutdown1" THEN {}
          ELSE (liveHandles \ ReleasedBy(cs)) \cup LiteCreatedBy(cs)
    /\ doubleRelease' = (doubleRelease \/ ~(ReleasedBy(cs) \subseteq liveHandles))

InitLite ==
    /\ m_initialized = FALSE /\ m_device = NULL /\ m_ngxParams = NULL
    /\ m_contexts = << >> /\ m_contextMutex = 0
    /\ m_dlssSRAvailable = FALSE /\ m_dlssRRAvailable = FALSE
    /\ liveHandles = {} /\ doubleRelease = FALSE /\ crashed = FALSE /\ nOps = 0
    /\ pc = << >> /\ op = << >> /\ args = << >> /\ result = << >> /\ calls = << >>
    /\ ctx = << >> /\ ctxLast = << >> /\ ctxOp = << >>
    /\ nrStored = ZeroParams /\ nrNew = ZeroParams /\ nrOut = FALSE
    /\ AuxInit

LiteFrame == UNCHANGED <<mgrVars, crashed, envVars, threadVars, ctxVars, nrVars,
                         queryVars, snapVars, fnVars>>

\* DLSS_AllocateFeatureHandle().
Lite_AllocateFeatureHandle ==
    /\ LET r == DLSS_AllocateFeatureHandle(g_featureHandleCounter, g_featureHandles)
       IN  /\ g_featureHandleCounter' = r.counter
           /\ g_featureHandles' = r.tbl
           /\ liteOp' = [NoLiteOp EXCEPT !.name = "AllocateFeatureHandle", !.result = r.result]
    /\ UNCHANGED <<liveHandles, doubleRelease>>
    /\ LiteFrame

\* DLSS_FreeFeatureHandle(h).
Lite_FreeFeatureHandle ==
    /\ \E h \in LiteHandleArgs :
        LET r == DLSS_FreeFeatureHandle(g_featureHandles, h)
        IN  /\ g_featureHandles' = r.tbl
            /\ liteOp' = [NoLiteOp EXCEPT !.name = "FreeFeatureHandle", !.handle = h,
                                          !.result = r.result]
    /\ UNCHANGED <<g_featureHandleCounter, liveHandles, doubleRelease>>
    /\ LiteFrame

\* A render event that returns before its switch: no data, no graphics
\* interface or no command list.
LiteEventDropped(n, h) ==
    /\ liteOp' = [NoLiteOp EXCEPT !.name = n, !.handle = h, !.hostOk = FALSE]
    /\ UNCHANGED <<g_featureHandleCounter, g_featureHandles, liveHandles, doubleRelease>>

\* The render event n with params->handle = h that reaches its case and
\* ends with the table and the vendor calls of r.
LiteEventRuns(n, h, r) ==
    /\ g_featureHandles' = r.tbl
    /\ LiteVendorApply(r.calls)
    /\ liteOp' = [NoLiteOp EXCEPT !.name = n, !.handle = h, !.calls = r.calls]
    /\ UNCHANGED g_featureHandleCounter

\* OnDLSSRenderEvent(DLSS_Event_CreateFeature, params).
Lite_CreateFeature ==
    /\ \E h \in LiteHandleArgs, hostOk \in BOOLEAN :
        IF ~hostOk THEN LiteEventDropped("CreateFeature", h)
        ELSE \E ngxResult \in CreateAnswers({}) :
                LiteEventRuns("CreateFeature", h,
                              LiteCreateFeature(g_featureHandles, h, ngxResult, NewHandle({})))
    /\ LiteFrame

\* OnDLSSRenderEvent(DLSS_Event_EvaluateFeature, params).
Lite_EvaluateFeature ==
    /\ \E h \in LiteHandleArgs, hostOk \in BOOLEAN :
        IF ~hostOk THEN LiteEventDropped("EvaluateFeature", h)
        ELSE LiteEventRuns("EvaluateFeature", h, LiteEvaluateFeature(g_featureHandles, h))
    /\ LiteFrame

\* OnDLSSRenderEvent(DLSS_Event_DestroyFeature, params).
Lite_DestroyFeature ==
    /\ \E h \in LiteHandleArgs, hostOk \in BOOLEAN :
        IF ~hostOk THEN LiteEventDropped("DestroyFeature", h)
        ELSE LiteEventRuns("DestroyFeature", h, LiteDestroyFeature(g_featureHandles, h))
    /\ LiteFrame

\* DLSS_Shutdown_D3D12(): without the graphics interface it returns
\* PlatformError; otherwise it releases the features of the table, clears
\* the table, resets the counter and shuts the vendor runtime down.
Lite_Shutdown ==
    /\ \E hostOk \in BOOLEAN :
        IF ~hostOk
        THEN /\ liteOp' = [NoLiteOp EXCEPT !.name = "Shutdown", !.hostOk = FALSE]
             /\ UNCHANGED <<g_featureHandleCounter, g_featureHandles, liveHandles,
                            doubleRelease>>
        ELSE LET cs == LiteReleaseAll(g_featureHandles, DOMAIN g_featureHandles)
                           \o <<[call |-> "NGX_Shutdown1", handle |-> NULL]>>
             IN  /\ g_featureHandles' = << >>
                 /\ g_featureHandleCounter' = 0
                 /\ LiteVendorApply(cs)
                 /\ liteOp' = [NoLiteOp EXCEPT !.name = "Shutdown", !.calls = cs,
                                               !.unreleased = liveHandles \ ReleasedBy(cs)]
    /\ LiteFrame

NextLite ==
    \/ Lite_AllocateFeatureHandle
    \/ Lite_FreeFeatureHandle
    \/ Lite_CreateFeature
    \/ Lite_EvaluateFeature
    \/ Lite_DestroyFeature
    \/ Lite_Shutdown

SpecLite == InitLite /\ [][NextLite]_vars

-----------------------------------------------------------------------------
(* SpecNR: NeedsRecreation applied to a stored snapshot and new parameters *)
(* drawn from every combination of two values per field (MaxDim values per *)
(* width and height), the new parameters differing from the snapshot in at *)
(* most MaxDiff fields.                                                    *)

NRFields == {"mode", "quality", "inW", "inH", "outW", "outH", "featureFlags",
             "denoiseMode", "depthType", "roughnessMode", "other"}

NRDomain(f) ==
    CASE f = "mode"          -> {DLSS_Mode_SuperResolution, DLSS_Mode_RayReconstruction}
      [] f = "quality"       -> {DLSS_Quality_MaxPerformance, DLSS_Quality_Balanced}
      [] f \in {"inW", "inH", "outW", "outH"} -> Dims
      [] f = "featureFlags"  -> {DLSS_Flag_None, DLSS_Flag_IsHDR, DLSS_Flag_AlphaUpscaling,
                                 DLSS_Flag_IsHDR + DLSS_Flag_AlphaUpscaling,
                                 2 * DLSS_Flag_DepthInverted}
      [] f = "denoiseMode"   -> {DLSS_Denoise_Off, DLSS_Denoise_DLUnified}
      [] f = "depthType"     -> {DLSS_Depth_Linear, DLSS_Depth_Hardware}
      [] f = "roughnessMode" -> {DLSS_Roughness_Unpacked, DLSS_Roughness_PackedInNormalsW}
      [] f = "other"         -> {0, 1}

\* The value of field f of the parameters p; "other" stands for the fields
\* NeedsRecreation never reads (the preset tables and enableOutputSubrects).
NRGet(p, f) ==
    CASE f = "mode"          -> p.mode
      [] f = "quality"       -> p.quality
      [] f = "inW"           -> p.inputResolution.width
      [] f = "inH"           -> p.inputResolution.height
      [] f = "outW"          -> p.outputResolution.width
      [] f = "outH"          -> p.outputResolution.height
      [] f = "featureFlags"  -> p.featureFlags
      [] f = "denoiseMode"   -> p.denoiseMode
      [] f = "depthType"     -> p.depthType
      [] f = "roughnessMode" -> p.roughnessMode
      [] f = "other"         -> p.enableOutputSubrects

NRSet(p, f, x) ==
    CASE f = "mode"          -> [p EXCEPT !.mode = x]
      [] f = "quality"       -> [p EXCEPT !.quality = x]
      [] f = "inW"           -> [p EXCEPT !.inputResolution.width = x]
      [] f = "inH"           -> [p EXCEPT !.inputResolution.height = x]
      [] f = "outW"          -> [p EXCEPT !.outputResolution.width = x]
      [] f = "outH"          -> [p EXCEPT !.outputResolution.height = x]
      [] f = "featureFlags"  -> [p EXCEPT !.featureFlags = x]
      [] f = "denoiseMode"   -> [p EXCEPT !.denoiseMode = x]
      [] f = "depthType"     -> [p EXCEPT !.depthType = x]
      [] f = "roughnessMode" -> [p EXCEPT !.roughnessMode = x]
      [] f = "other"         -> [p EXCEPT !.enableOutputSubrects = x,
                                          !.presetsSR = Presets(IF x = 0 THEN DLSS_SR_Preset_Default
                                                                ELSE DLSS_SR_Preset_K),
                                          !.presetsRR = Presets(IF x = 0 THEN DLSS_RR_Preset_Default
                                                                ELSE DLSS_RR_Preset_E)]

\* The fields in which two parameter sets differ.
NRDiff(s, n) == {f \in NRFields : NRGet(s, f) # NRGet(n, f)}

\* The snapshots a context is first created with.
NRStart ==
    {[ZeroParams EXCEPT !.mode = m, !.quality = DLSS_Quality_Balanced,
                        !.inputResolution = Dim(w, h), !.outputResolution = Dim(MaxDim, MaxDim)] :
        m \in NRDomain("mode"), w \in Dims, h \in Dims}

InitNR ==
    /\ m_initialized = FALSE /\ m_device = NULL /\ m_ngxParams = NULL
    /\ m_contexts = << >> /\ m_contextMutex = 0
    /\ m_dlssSRAvailable = FALSE /\ m_dlssRRAvailable = FALSE
    /\ liveHandles = {} /\ doubleRelease = FALSE /\ crashed = FALSE /\ nOps = 0
    /\ pc = << >> /\ op = << >> /\ args = << >> /\ result = << >> /\ calls = << >>
    /\ ctx = << >> /\ ctxLast = << >> /\ ctxOp = << >>
    /\ nrStored \in NRStart
    /\ nrNew = nrStored
    /\ nrOut = NeedsRecreation(nrStored, nrNew)
    /\ AuxInit

\* The caller changes one field of the parameters it passes and
\* NeedsRecreation is asked again.
NR_Ask ==
    /\ \E f \in NRFields : \E x \in NRDomain(f) :
        /\ nrNew' = NRSet(nrNew, f, x)
        /\ Cardinality(NRDiff(nrStored, nrNew')) <= MaxDiff
        /\ nrOut' = NeedsRecreation(nrStored, nrNew')
    /\ UNCHANGED <<nrStored, mgrVars, vendorVars, envVars, threadVars, ctxVars, auxVars>>

NextNR == NR_Ask

SpecNR == InitNR /\ [][NextNR]_vars

-----------------------------------------------------------------------------
(* SpecCtx: DLSSContext objects used directly. An object is constructed,   *)
(* created, executed, destroyed, moved from and into, and destructed, in   *)
(* any order; the shared parameter object is there or not at each call.    *)

NoOp == [name |-> "None", obj |-> 0, other |-> 0, ngxParams |-> NULL, mode |-> DLSS_Mode_Off,
         result |-> "None", hadHandle |-> FALSE,
         calls |-> << >>]

InitCtx ==
    /\ m_initialized = FALSE /\ m_device = NULL /\ m_ngxParams = NULL
    /\ m_contexts = << >> /\ m_contextMutex = 0
    /\ m_dlssSRAvailable = FALSE /\ m_dlssRRAvailable = FALSE
    /\ liveHandles = {} /\ doubleRelease = FALSE /\ crashed = FALSE /\ nOps = 0
    /\ pc = << >> /\ op = << >> /\ args = << >> /\ result = << >> /\ calls = << >>
    /\ nrStored = ZeroParams /\ nrNew = ZeroParams /\ nrOut = FALSE
    /\ AuxInit
    /\ ctx = [c \in Ctxs |-> EmptyContext]
    /\ ctxLast = [c \in Ctxs |-> "none"]
    /\ ctxOp = NoOp

Constructed(c) == ctxLast[c] # "none"

CtxFrame == UNCHANGED <<mgrVars, crashed, envVars, threadVars, nrVars, auxVars>>

\* DLSSContext() = default.
Ctx_Construct(c) ==
    /\ ~Constructed(c)
    /\ ctx' = [ctx EXCEPT ![c] = EmptyContext]
    /\ ctxLast' = [ctxLast EXCEPT ![c] = "constructed"]
    /\ ctxOp' = [name |-> "Construct", obj |-> c, other |-> 0,
                 ngxParams |-> NULL, mode |-> DLSS_Mode_Off, result |-> "None",
                 hadHandle |-> FALSE, calls |-> << >>]
    /\ UNCHANGED <<liveHandles, doubleRelease>>
    /\ CtxFrame

\* DLSSContext c(std::move(o)).
Ctx_MoveConstruct(c, o) ==
    /\ ~Constructed(c) /\ Constructed(o)
    /\ LET r == MoveConstruct(ctx[o])
       IN  /\ ctx' = [ctx EXCEPT ![c] = r.ctx, ![o] = r.other]
           /\ ctxLast' = [ctxLast EXCEPT
                             ![c] = IF ctx[o].handle # NULL THEN "movedInLive" ELSE "movedInEmpty",
                             ![o] = "emptied"]
           /\ VendorApply(r.calls)
    /\ ctxOp' = [name |-> "MoveConstruct", obj |-> c, other |-> o,
                 ngxParams |-> NULL, mode |-> DLSS_Mode_Off, result |-> "None",
                 hadHandle |-> FALSE, calls |-> MoveConstruct(ctx[o]).calls]
    /\ CtxFrame

\* c = std::move(o); nothing happens when o is c itself.
Ctx_MoveAssign(c, o) ==
    /\ Constructed(c) /\ Constructed(o)
    /\ IF c = o
       THEN UNCHANGED <<ctx, ctxLast, liveHandles, doubleRelease>>
       ELSE LET r == MoveAssign(ctx[c], ctx[o])
            IN  /\ ctx' = [ctx EXCEPT ![c] = r.ctx, ![o] = r.other]
                /\ ctxLast' = [ctxLast EXCEPT
                                  ![c] = IF ctx[o].handle # NULL THEN "movedInLive"
                                         ELSE "movedInEmpty",
                                  ![o] = "emptied"]
                /\ VendorApply(r.calls)
    /\ ctxOp' = [name |-> "MoveAssign", obj |-> c, other |-> o,
                 ngxParams |-> NULL, mode |-> DLSS_Mode_Off, result |-> "None",
                 hadHandle |-> ctx[c].handle # NULL,
                 calls |-> IF c = o THEN << >> ELSE MoveAssign(ctx[c], ctx[o]).calls]
    /\ CtxFrame

\* c.Create(device, cmdList, params).
Ctx_Create(c) ==
    /\ Constructed(c)
    /\ \E ngxParams \in {NULL, CapabilityObject}, p \in CtxParamSet :
       LET rel == ReleasedBy(Destroy(ctx[c]).calls)
       IN  \E ngxResult \in CreateAnswers(rel) :
           LET r == Create(ctx[c], ngxParams, p, ngxResult, NewHandle(rel))
           IN  /\ ctx' = [ctx EXCEPT ![c] = r.ctx]
               /\ ctxLast' = [ctxLast EXCEPT ![c] = IF r.result = "Success" THEN "createOk"
                                                    ELSE "createFailed"]
               /\ VendorApply(r.calls)
               /\ ctxOp' = [name |-> "Create", obj |-> c, other |-> 0,
                            ngxParams |-> ngxParams, mode |-> p.mode, result |-> r.result,
                            hadHandle |-> ctx[c].handle # NULL, calls |-> r.calls]
    /\ CtxFrame

\* c.Destroy().
Ctx_Destroy(c) ==
    /\ Constructed(c)
    /\ LET r == Destroy(ctx[c])
       IN  /\ ctx' = [ctx EXCEPT ![c] = r.ctx]
           /\ VendorApply(r.calls)
    /\ ctxLast' = [ctxLast EXCEPT ![c] = "emptied"]
    /\ ctxOp' = [name |-> "Destroy", obj |-> c, other |-> 0,
                 ngxParams |-> NULL, mode |-> DLSS_Mode_Off, result |-> "None",
                 hadHandle |-> ctx[c].handle # NULL, calls |-> Destroy(ctx[c]).calls]
    /\ CtxFrame

\* c.Execute(cmdList, params).
Ctx_Execute(c) ==
    /\ Constructed(c)
    /\ \E ngxParams \in {NULL, CapabilityObject}, m \in CtxExecModes, ngxResult \in VendorResults :
       LET r == Execute(ctx[c], ngxParams, m, ngxResult)
       IN  /\ ctx' = [ctx EXCEPT ![c] = r.ctx]
           /\ VendorApply(r.calls)
           /\ ctxOp' = [name |-> "Execute", obj |-> c, other |-> 0,
                        ngxParams |-> ngxParams, mode |-> m, result |-> r.result,
                        hadHandle |-> ctx[c].handle # NULL, calls |-> r.calls]
    /\ UNCHANGED ctxLast
    /\ CtxFrame

\* ~DLSSContext(): Destroy(), and the object is gone.
Ctx_Destruct(c) ==
    /\ Constructed(c)
    /\ VendorApply(Destroy(ctx[c]).calls)
    /\ ctx' = [ctx EXCEPT ![c] = Destroy(ctx[c]).ctx]
    /\ ctxLast' = [ctxLast EXCEPT ![c] = "none"]
    /\ ctxOp' = [name |-> "Destruct", obj |-> c, other |-> 0,
                 ngxParams |-> NULL, mode |-> DLSS_Mode_Off, result |-> "None",
                 hadHandle |-> ctx[c].handle # NULL, calls |-> Destroy(ctx[c]).calls]
    /\ CtxFrame

NextCtx ==
    \E c \in Ctxs :
        \/ Ctx_Construct(c)
        \/ \E o \in Ctxs : Ctx_MoveConstruct(c, o)
        \/ \E o \in Ctxs : Ctx_MoveAssign(c, o)
        \/ Ctx_Create(c)
        \/ Ctx_Destroy(c)
        \/ Ctx_Execute(c)
        \/ Ctx_Destruct(c)

SpecCtx == InitCtx /\ [][NextCtx]_vars

-----------------------------------------------------------------------------
(* Claims.                                                                 *)

\* SpecNR: the new parameters equal the snapshot but for the input resolution.
OnlyInputDiffers == NRDiff(nrStored, nrNew) \subseteq {"inW", "inH"}
InputGrows ==
    \/ nrNew.inputResolution.width > nrStored.inputResolution.width
    \/ nrNew.inputResolution.height > nrStored.inputResolution.height
InputShrinks ==
    \/ nrNew.inputResolution.width < nrStored.inputResolution.width
    \/ nrNew.inputResolution.height < nrStored.inputResolution.height

\* C1, as claimed: with every other field equal, NeedsRecreation is false
\* when the new input resolution is larger than the snapshot's and true when
\* its width or height is smaller.
C1_AsClaimed ==
    OnlyInputDiffers =>
        /\ (InputGrows /\ ~InputShrinks => nrOut = FALSE)
        /\ (InputShrinks => nrOut = TRUE)

\* C1, amended: with every other field equal, NeedsRecreation is true when
\* the new input width or height is larger than the snapshot's, and false
\* when neither is larger (the input shrinks or stays).
C1_InputGrowthRecreates ==
    OnlyInputDiffers =>
        /\ (InputGrows => nrOut = TRUE)
        /\ (~InputGrows => nrOut = FALSE)

\* C1 witness: the input grew from 1x1 to MaxDim x MaxDim, nothing else
\* changed, and NeedsRecreation said to recreate.
C1_Witness ==
    /\ OnlyInputDiffers
    /\ nrStored.inputResolution = Dim(1, 1)
    /\ nrNew.inputResolution = Dim(MaxDim, MaxDim)
    /\ nrOut = TRUE

\* The fields whose difference always asks for recreation, the fields read
\* only when the new mode is ray reconstruction, and the input resolution.
NRAlwaysFields == {"mode", "outW", "outH", "quality", "featureFlags"}
NRRayFields    == {"denoiseMode", "depthType", "roughnessMode"}
NRInputFields  == {"inW", "inH"}

\* C27: NeedsRecreation is true whenever the mode, the output width or
\* height, the quality or the raw feature-flag bitmask differs; when none of
\* these and not the input resolution differs, a difference in denoise mode,
\* depth type or roughness mode makes it true exactly when the new mode is
\* ray reconstruction; and it is false when the new parameters equal the
\* snapshot in all of these fields and in input resolution.
C27_RecreationFields ==
    LET d == NRDiff(nrStored, nrNew) IN
        /\ d \cap NRAlwaysFields # {} => nrOut = TRUE
        /\ (d \cap (NRAlwaysFields \cup NRInputFields) = {} /\ d \cap NRRayFields # {})
              => (nrOut = TRUE <=> nrNew.mode = DLSS_Mode_RayReconstruction)
        /\ d \cap (NRAlwaysFields \cup NRInputFields \cup NRRayFields) = {} => nrOut = FALSE

\* C27 witness: the new flags differ from the snapshot's only in a bit above
\* the lowest, nothing else differs, and NeedsRecreation said to recreate.
C27_Witness ==
    /\ NRDiff(nrStored, nrNew) = {"featureFlags"}
    /\ nrStored.featureFlags % 2 = nrNew.featureFlags % 2
    /\ nrOut = TRUE

\* C27 witness: in super resolution the denoise mode alone differs and
\* NeedsRecreation said to keep the context.
C27_WitnessRayFieldIgnored ==
    /\ NRDiff(nrStored, nrNew) = {"denoiseMode"}
    /\ nrNew.mode = DLSS_Mode_SuperResolution
    /\ nrOut = FALSE

\* C27 witness: only fields NeedsRecreation never reads differ, and the
\* answer is to keep the context.
C27_WitnessEqual ==
    /\ NRDiff(nrStored, nrNew) = {"other"}
    /\ nrOut = FALSE

-----------------------------------------------------------------------------
(* Claims about the registry, under Spec.                                  *)

\* Thread t takes the step of its operation that is at label l.
StepAt(t, l) == pc[t] = l /\ pc'[t] # l

\* How often x occurs in the sequence cs.
Count(cs, x) == Cardinality({i \in 1..Len(cs) : cs[i] = x})

\* C2: CreateContext for a view that has a context returns
\* ContextAlreadyExists, calls no vendor create or release, and leaves the
\* table (and with it the stored parameters of the context) unchanged.
C2_ExistingViewRejected ==
    [][\A t \in Threads :
        (StepAt(t, "CC_Find") /\ args[t].view \in DOMAIN m_contexts)
        => /\ result'[t] = "ContextAlreadyExists"
           /\ pc'[t] = (IF op[t] = "UpdateContext" THEN "UC_Relock" ELSE "Ret")
           /\ m_contexts' = m_contexts
           /\ liveHandles' = liveHandles
           /\ calls'[t] = calls[t]
           /\ (op[t] = "CreateContext" => calls'[t] = << >>)]_vars

\* C2 witness: on an initialized registry CreateContext has returned
\* ContextAlreadyExists for a view whose context was created with other
\* parameters, and the context still has them.
C2_Witness ==
    \E t \in Threads :
        /\ op[t] = "CreateContext" /\ pc[t] = "Ret"
        /\ result[t] = "ContextAlreadyExists"
        /\ calls[t] = << >>
        /\ m_initialized
        /\ args[t].view \in DOMAIN m_contexts
        /\ m_contexts[args[t].view].params # args[t].params

\* C3: DestroyContext for a view that is not in the table returns Success,
\* makes no vendor call and leaves the table unchanged, whether the registry
\* is initialized or not.
C3_DestroyMissingIsSuccess ==
    [][\A t \in Threads :
        (StepAt(t, "DC_Erase") /\ args[t].view \notin DOMAIN m_contexts)
        => /\ result'[t] = "Success"
           /\ pc'[t] = "Ret"
           /\ m_contexts' = m_contexts
           /\ liveHandles' = liveHandles
           /\ calls'[t] = << >>]_vars

\* C3 witness: DestroyContext of a missing view has returned Success without
\* a vendor call, on a registry that is not initialized.
C3_Witness ==
    \E t \in Threads :
        /\ op[t] = "DestroyContext" /\ pc[t] = "Ret"
        /\ result[t] = "Success"
        /\ calls[t] = << >>
        /\ ~m_initialized
        /\ args[t].view \notin DOMAIN m_contexts

\* The same on an initialized registry whose table holds another view.
C3_WitnessInitialized ==
    \E t \in Threads :
        /\ op[t] = "DestroyContext" /\ pc[t] = "Ret"
        /\ result[t] = "Success"
        /\ calls[t] = << >>
        /\ m_initialized
        /\ args[t].view \notin DOMAIN m_contexts
        /\ DOMAIN m_contexts # {}

\* The parameters n differ from the snapshot s at most in the preset tables,
\* in enableOutputSubrects, and, n's mode not being RR, in the RR-only fields.
OnlyUncoveredDiffer(s, n) ==
    /\ s.mode = n.mode
    /\ s.quality = n.quality
    /\ s.inputResolution = n.inputResolution
    /\ s.outputResolution = n.outputResolution
    /\ s.featureFlags = n.featureFlags
    /\ (n.mode = DLSS_Mode_RayReconstruction
        => /\ s.denoiseMode = n.denoiseMode
           /\ s.depthType = n.depthType
           /\ s.roughnessMode = n.roughnessMode)

\* C4: UpdateContext with parameters that differ from the stored snapshot
\* only in fields NeedsRecreation does not cover returns Success, makes no
\* vendor create or release call, and leaves the table entry and its
\* snapshot unchanged.
C4_MinorUpdateKeepsContext ==
    [][\A t \in Threads :
        (/\ StepAt(t, "UC_Find")
         /\ args[t].view \in DOMAIN m_contexts
         /\ OnlyUncoveredDiffer(m_contexts[args[t].view].params, args[t].params))
        => /\ result'[t] = "Success"
           /\ pc'[t] = "Ret"
           /\ m_contexts' = m_contexts
           /\ liveHandles' = liveHandles
           /\ calls'[t] = << >>]_vars

\* C4 witness: UpdateContext has returned Success without a vendor call for
\* parameters that are not the stored ones (presets, enableOutputSubrects and
\* RR-only fields differ, the mode is standard), and the snapshot is the old one.
C4_Witness ==
    \E t \in Threads :
        /\ op[t] = "UpdateContext" /\ pc[t] = "Ret"
        /\ result[t] = "Success"
        /\ calls[t] = << >>
        /\ args[t].view \in DOMAIN m_contexts
        /\ m_contexts[args[t].view].params # args[t].params
        /\ m_contexts[args[t].view].params.denoiseMode # args[t].params.denoiseMode
        /\ OnlyUncoveredDiffer(m_contexts[args[t].view].params, args[t].params)

\* C5: Execute, past its initialized and command-list checks, for a view
\* that is not in the table returns ContextNotFound and makes no vendor
\* evaluation call.
C5_ExecuteMissingNotFound ==
    [][\A t \in Threads :
        (StepAt(t, "EX_Run") /\ args[t].view \notin DOMAIN m_contexts)
        => /\ result'[t] = "ContextNotFound"
           /\ pc'[t] = "Ret"
           /\ calls'[t] = << >>
           /\ m_contexts' = m_contexts]_vars

\* C5 witness: on an initialized registry Execute with a command list has
\* returned ContextNotFound for a view without a context, no vendor call made.
C5_Witness ==
    \E t \in Threads :
        /\ op[t] = "Execute" /\ pc[t] = "Ret"
        /\ result[t] = "ContextNotFound"
        /\ calls[t] = << >>
        /\ args[t].cmdList # NULL
        /\ m_initialized
        /\ args[t].view \notin DOMAIN m_contexts


\* Thread t is in the teardown sequence of Shutdown, past the exchange guard.
TearsDown(t) ==
    /\ op[t] = "Shutdown"
    /\ pc[t] \in {"SD_ReadSize", "DA_Lock", "DA_Clear", "SD_Params", "SD_Device"}

\* The handles the contexts of the table hold.
TableHandles == {m_contexts[v].handle : v \in DOMAIN m_contexts}

\* C6: the exchange guard lets one Shutdown through per initialization. A
\* Shutdown that finds the flag set clears it in the same atomic step and
\* runs the teardown; one that finds it cleared (a concurrent Shutdown went
\* first) returns without touching any state and without a vendor call. The
\* teardown releases each context of the table once, destroys the capability
\* object at most once and releases the device at most once; no handle is
\* ever released twice.
C6_OneTeardown ==
    /\ [](/\ ~doubleRelease
          /\ \A t \in Threads : op[t] = "Shutdown" =>
                /\ Count(calls[t], "DestroyParameters") <= 1
                /\ Count(calls[t], "NGX_Shutdown1") <= 1
                /\ Count(calls[t], "DeviceReset") <= 1)
    /\ [][\A t \in Threads :
            /\ StepAt(t, "SD_Exchange") =>
                 IF m_initialized
                 THEN /\ ~m_initialized'
                      /\ pc'[t] = "SD_ReadSize"
                 ELSE /\ pc'[t] = "Ret"
                      /\ calls'[t] = << >>
                      /\ UNCHANGED <<mgrVars, vendorVars>>
            /\ (op[t] = "Shutdown" /\ StepAt(t, "DA_Clear")) =>
                 /\ m_contexts' = << >>
                 /\ Count(calls'[t], "ReleaseFeature") = Cardinality(DOMAIN m_contexts)
                 /\ liveHandles' = liveHandles \ TableHandles]_vars

\* C6 witness: two threads invoked Shutdown on the initialized registry; one
\* has returned without a call and without a change, the other has run the
\* whole teardown: the context released, the capability object destroyed,
\* the device released.
C6_Witness ==
    \E t, u \in Threads :
        /\ t # u
        /\ op[t] = "Shutdown" /\ op[u] = "Shutdown"
        /\ args[t].initAtCall /\ args[u].initAtCall
        /\ pc[u] = "Ret" /\ calls[u] = << >>
        /\ pc[t] = "Ret"
        /\ calls[t] = <<"ReleaseFeature", "DestroyParameters", "NGX_Shutdown1", "DeviceReset">>

\* C7: every key of the view table maps to a context that holds a live
\* vendor handle; no entry is ever left with an empty context.
C7_EntriesHoldLiveHandles ==
    \A v \in DOMAIN m_contexts :
        /\ m_contexts[v].handle # NULL
        /\ m_contexts[v].handle \in liveHandles

\* C7 witness: DestroyContext has destroyed a context (one vendor release)
\* and its view is out of the table, which still holds another view.
C7_Witness ==
    \E t \in Threads :
        /\ op[t] = "DestroyContext" /\ pc[t] = "Ret"
        /\ calls[t] = <<"ReleaseFeature">>
        /\ args[t].view \notin DOMAIN m_contexts
        /\ DOMAIN m_contexts # {}

\* The steps of CreateContext.
CCSteps == {"CC_Check", "CC_Lock", "CC_Find", "CC_Create"}

\* C9: a step of CreateContext changes the view table only when the vendor
\* create succeeded, and then it adds the view with the new handle and the
\* given parameters; when CreateContext ends with NotInitialized,
\* ContextAlreadyExists, PlatformError or a translated vendor failure, the
\* table is what it was.
C9_InsertOnlyOnSuccess ==
    [][\A t \in Threads :
        (pc[t] \in CCSteps /\ pc'[t] # pc[t]) =>
            IF pc[t] = "CC_Create" /\ result'[t] = "Success"
            THEN /\ DOMAIN m_contexts' = DOMAIN m_contexts \cup {args[t].view}
                 /\ m_contexts'[args[t].view].handle \in liveHandles' \ liveHandles
                 /\ m_contexts'[args[t].view].params = args[t].params
                 /\ \A w \in DOMAIN m_contexts \ {args[t].view} :
                        m_contexts'[w] = m_contexts[w]
            ELSE /\ m_contexts' = m_contexts
                 /\ pc'[t] \notin CCSteps =>
                        result'[t] \in {"NotInitialized", "ContextAlreadyExists",
                                        "PlatformError", "OutOfMemory"}]_vars

\* C9 witness: the vendor create was called and failed, CreateContext has
\* returned the translated failure, and the view is not in the table.
C9_Witness ==
    \E t \in Threads :
        /\ op[t] = "CreateContext" /\ pc[t] = "Ret"
        /\ result[t] = "OutOfMemory"
        /\ calls[t] = <<"CreateDLSS">>
        /\ args[t].view \notin DOMAIN m_contexts

\* Thread t is in UpdateContext between the erase of the old entry and the
\* lock CreateContext takes.
InWindow(t) == op[t] = "UpdateContext" /\ pc[t] \in {"CC_Check", "CC_Lock"}

\* C10: while UpdateContext is between its erase of the old entry and the
\* lock of the CreateContext it calls, it does not hold the mutex, and the
\* old context is released and out of the table: other threads get the
\* mutex and see the table without it.
C10_ReplacementNotAtomic ==
    \A t \in Threads :
        InWindow(t) =>
            /\ m_contextMutex # t
            /\ calls[t] = <<"ReleaseFeature">>

\* C10 witness: UpdateContext recreating the context of a view has got
\* ContextAlreadyExists from its own CreateContext, because the CreateContext
\* of another thread for the same view succeeded inside the window.
C10_Witness ==
    \E t, u \in Threads :
        /\ t # u
        /\ op[t] = "UpdateContext" /\ pc[t] = "Ret"
        /\ result[t] = "ContextAlreadyExists"
        /\ calls[t] = <<"ReleaseFeature">>
        /\ op[u] = "CreateContext" /\ pc[u] = "Ret"
        /\ result[u] = "Success"
        /\ args[u].view = args[t].view

\* Inside the window another thread holds the mutex at the lookup of
\* HasContext or Execute, and the view is not in the table.
C10_SeenAbsent ==
    \E t, u \in Threads :
        /\ InWindow(t)
        /\ pc[u] \in {"HC_Find", "EX_Run"}
        /\ m_contextMutex = u
        /\ args[u].view = args[t].view
        /\ args[t].view \notin DOMAIN m_contexts

-----------------------------------------------------------------------------
(* Claims about one DLSSContext, under SpecCtx.                            *)

\* C8, as claimed: the handle of a context is non-null exactly when its most
\* recent Create succeeded and no Destroy or move-out has happened since.
C8_AsClaimed ==
    \A c \in Ctxs :
        Constructed(c) => (ctx[c].handle # NULL <=> ctxLast[c] = "createOk")

\* C8, amended: the handle of a context is non-null exactly when the last
\* thing that set it was a successful Create or a move from a context that
\* held a handle (no Destroy, failed Create, move-out or move from an empty
\* context since); the handle it holds is live; and a failed Create leaves
\* the handle empty, also when a handle was held before the call.
C8_HandleIffCreatedOrMovedIn ==
    /\ \A c \in Ctxs :
        Constructed(c) =>
            /\ ctx[c].handle # NULL <=> ctxLast[c] \in {"createOk", "movedInLive"}
            /\ ctx[c].handle # NULL => ctx[c].handle \in liveHandles
    /\ (ctxOp.name = "Create" /\ ctxOp.result # "Success")
            => ctx[ctxOp.obj].handle = NULL

\* C8 witness: Create was called on a context that held a handle, the
\* shared parameter object was not there, and the handle is empty.
C8_Witness ==
    /\ ctxOp.name = "Create"
    /\ ctxOp.hadHandle
    /\ ctxOp.result = "NotInitialized"
    /\ ctx[ctxOp.obj].handle = NULL

\* The step is the operation named n, on some object.
CtxStep(n) == ctxOp'.name = n /\ <<ctx, ctxLast, ctxOp>>' # <<ctx, ctxLast, ctxOp>>

\* The one vendor call releasing the handle h.
ReleaseOf(h) == [call |-> "ReleaseFeature", handle |-> h]

\* C28: Destroy is idempotent. A Destroy on a context holding a handle makes
\* exactly one vendor call, the release of that handle, and empties the
\* handle; a Destroy on a context without a handle makes no vendor call, and
\* so does a Destroy that follows a Destroy of the same context, which
\* changes nothing in the context; after every Destroy the snapshot is the
\* cleared default.
C28_DestroyIdempotent ==
    [][CtxStep("Destroy") =>
        LET c == ctxOp'.obj IN
            /\ ctx'[c] = [handle |-> NULL, params |-> ZeroParams]
            /\ ctx[c].handle # NULL
                  => /\ ctxOp'.calls = <<ReleaseOf(ctx[c].handle)>>
                     /\ ctx[c].handle \in liveHandles
                     /\ liveHandles' = liveHandles \ {ctx[c].handle}
            /\ ctx[c].handle = NULL
                  => ctxOp'.calls = << >> /\ liveHandles' = liveHandles
            /\ doubleRelease' = doubleRelease
            /\ (ctxOp.name = "Destroy" /\ ctxOp.obj = c)
                  => ctxOp'.calls = << >> /\ ctx' = ctx]_vars

\* C28 witness: the last operation was a Destroy of a context that held a
\* handle; it made the one release call and the context is empty and cleared.
C28_Witness ==
    /\ ctxOp.name = "Destroy"
    /\ ctxOp.hadHandle
    /\ Len(ctxOp.calls) = 1
    /\ ctxOp.calls[1].call = "ReleaseFeature"
    /\ ctxOp.calls[1].handle \notin liveHandles
    /\ ctx[ctxOp.obj] = EmptyContext

\* The handles the constructed contexts hold.
HeldHandles == {ctx[c].handle : c \in {d \in Ctxs : Constructed(d)}} \ {NULL}

\* C29: a move hands the source's handle to the target and leaves the source
\* with a null handle, and a move assignment first releases the handle the
\* target held (one release call, nothing else); over every sequence of
\* Create, moves, Destroy and destructor runs no handle is released twice,
\* no two contexts hold the same handle, and the live handles are exactly
\* those held by a context, so that the destructors release each one once.
C29_MoveTransfersOwnership ==
    /\ [](/\ ~doubleRelease
          /\ liveHandles = HeldHandles
          /\ \A c, d \in Ctxs :
                (Constructed(c) /\ Constructed(d) /\ c # d /\ ctx[c].handle # NULL)
                    => ctx[c].handle # ctx[d].handle
          /\ \A c \in Ctxs : ~Constructed(c) => ctx[c].handle = NULL)
    /\ [][(CtxStep("MoveConstruct") \/ CtxStep("MoveAssign")) /\ ctxOp'.obj # ctxOp'.other =>
            LET c == ctxOp'.obj
                o == ctxOp'.other
            IN  /\ ctx'[c].handle = ctx[o].handle
                /\ ctx'[c].params = ctx[o].params
                /\ ctx'[o].handle = NULL
                /\ ctxOp'.calls = IF ctxOp'.name = "MoveAssign" /\ ctx[c].handle # NULL
                                  THEN <<ReleaseOf(ctx[c].handle)>> ELSE << >>
                /\ liveHandles' = liveHandles \ ReleasedBy(ctxOp'.calls)]_vars
    /\ [][CtxStep("MoveAssign") /\ ctxOp'.obj = ctxOp'.other =>
            ctx' = ctx /\ ctxOp'.calls = << >> /\ liveHandles' = liveHandles]_vars
    /\ [][CtxStep("Destruct") =>
            /\ ctxOp'.calls = IF ctx[ctxOp'.obj].handle # NULL
                              THEN <<ReleaseOf(ctx[ctxOp'.obj].handle)>> ELSE << >>
            /\ liveHandles' = liveHandles \ ReleasedBy(ctxOp'.calls)]_vars

\* C29 witness: a move assignment into a context that held a handle, from a
\* context that held another; the target's old handle was released and is no
\* longer live, the target holds the source's and the source holds none.
C29_Witness ==
    /\ ctxOp.name = "MoveAssign"
    /\ ctxOp.obj # ctxOp.other
    /\ ctxOp.hadHandle
    /\ Len(ctxOp.calls) = 1
    /\ ctxOp.calls[1].handle \notin liveHandles
    /\ ctx[ctxOp.obj].handle \in liveHandles
    /\ ctx[ctxOp.other].handle = NULL

\* C29 witness: a destructor ran on a context that had been moved into and
\* released the handle; no handle is live any more.
C29_WitnessDestructor ==
    /\ ctxOp.name = "Destruct"
    /\ ctxOp.hadHandle
    /\ Len(ctxOp.calls) = 1
    /\ liveHandles = {}
    /\ \E d \in Ctxs : d # ctxOp.obj /\ ctxLast[d] = "emptied"

\* C30: a Create on a context that holds a handle releases that handle with
\* one release call, the first vendor call of the Create and before any
\* vendor create; holding a handle is not an error, a vendor create that
\* gives a handle ends the Create with Success, the new handle and the new
\* snapshot; and a Create that does not succeed leaves the context empty,
\* its old handle released and no longer live.
C30_CreateReleasesFirst ==
    [][CtxStep("Create") /\ ctx[ctxOp'.obj].handle # NULL =>
        LET c   == ctxOp'.obj
            old == ctx[c].handle
            cs  == ctxOp'.calls
        IN  /\ Len(cs) \in {1, 2}
            /\ cs[1] = ReleaseOf(old)
            /\ old \in liveHandles
            /\ doubleRelease' = doubleRelease
            /\ Len(cs) = 2 => cs[2].call \in {"CreateDLSS", "CreateDLSSD"}
            /\ ctxOp'.result \in {"Success", "NotInitialized"}
                                    \cup {TranslateNGXResult(r) : r \in VendorResults \ {NGX_Success}}
            /\ ctxOp'.result = "Success"
                  <=> Len(cs) = 2 /\ cs[2].handle # NULL
            /\ ctxOp'.result = "Success"
                  => /\ ctx'[c].handle = cs[2].handle
                     /\ ctx'[c].params.mode # DLSS_Mode_Off
                     /\ liveHandles' = (liveHandles \ {old}) \cup {cs[2].handle}
            /\ ctxOp'.result # "Success"
                  => /\ ctx'[c] = [handle |-> NULL, params |-> ZeroParams]
                     /\ liveHandles' = liveHandles \ {old}]_vars

\* C30 witness: a Create on a context that held a handle reached the vendor
\* create, which failed; the old handle was released first and the context
\* is empty.
C30_Witness ==
    /\ ctxOp.name = "Create"
    /\ ctxOp.hadHandle
    /\ Len(ctxOp.calls) = 2
    /\ ctxOp.calls[1].call = "ReleaseFeature"
    /\ ctxOp.calls[2].handle = NULL
    /\ ctxOp.result = TranslateNGXResult("FAIL_OutOfGPUMemory")
    /\ ctx[ctxOp.obj] = EmptyContext

\* C30 witness: a Create on a context that held a handle succeeded after
\* releasing it.
C30_WitnessUpgrade ==
    /\ ctxOp.name = "Create"
    /\ ctxOp.hadHandle
    /\ Len(ctxOp.calls) = 2
    /\ ctxOp.calls[1].call = "ReleaseFeature"
    /\ ctxOp.result = "Success"
    /\ ctx[ctxOp.obj].handle \in liveHandles

\* C31: Execute on a context without a handle returns ContextNotFound, and
\* on a context with a handle while the shared parameter object is not there
\* returns NotInitialized, both without a vendor call; otherwise it makes
\* the one evaluation call on the held handle and returns Success or the
\* translated failure; on every path the handle and the snapshot of every
\* context, and the live handles, are as before.
C31_ExecuteLeavesContext ==
    [][CtxStep("Execute") =>
        LET c == ctxOp'.obj IN
            /\ ctx' = ctx
            /\ liveHandles' = liveHandles
            /\ doubleRelease' = doubleRelease
            /\ ctx[c].handle = NULL
                  => ctxOp'.result = "ContextNotFound" /\ ctxOp'.calls = << >>
            /\ (ctx[c].handle # NULL /\ ctxOp'.ngxParams = NULL)
                  => ctxOp'.result = "NotInitialized" /\ ctxOp'.calls = << >>
            /\ (ctx[c].handle # NULL /\ ctxOp'.ngxParams # NULL)
                  => /\ Len(ctxOp'.calls) = 1
                     /\ ctxOp'.calls[1].call \in {"EvaluateDLSS", "EvaluateDLSSD"}
                     /\ ctxOp'.calls[1].handle = ctx[c].handle
                     /\ ctxOp'.result \in {"Success"} \cup
                            {TranslateNGXResult(r) : r \in VendorResults \ {NGX_Success}}]_vars

\* C31 witness: an Execute whose vendor evaluation failed; the context still
\* holds its live handle and its snapshot.
C31_Witness ==
    /\ ctxOp.name = "Execute"
    /\ Len(ctxOp.calls) = 1
    /\ ctxOp.result = TranslateNGXResult("FAIL_OutOfGPUMemory")
    /\ ctx[ctxOp.obj].handle = ctxOp.calls[1].handle
    /\ ctx[ctxOp.obj].handle \in liveHandles
    /\ ctx[ctxOp.obj].params # ZeroParams

\* C31 witness: an Execute on a context with a handle found no shared
\* parameter object and made no vendor call.
C31_WitnessNotInitialized ==
    /\ ctxOp.name = "Execute"
    /\ ctxOp.hadHandle
    /\ ctxOp.ngxParams = NULL
    /\ ctxOp.result = "NotInitialized"
    /\ ctxOp.calls = << >>
    /\ ctx[ctxOp.obj].handle \in liveHandles

C38_WitnessOff ==
    /\ ctxOp.name = "Execute"
    /\ ctxOp.mode = DLSS_Mode_Off
    /\ ctx[ctxOp.obj].params.mode = DLSS_Mode_RayReconstruction
    /\ ctxOp.calls = <<[call |-> "EvaluateDLSS", handle |-> ctx[ctxOp.obj].handle]>>
    /\ ctxOp.result = "Success"

\* C28 witness: a Destroy of a context without a handle, made no vendor call,
\* while another context holds a live handle.
C28_WitnessAgain ==
    /\ ctxOp.name = "Destroy"
    /\ ~ctxOp.hadHandle
    /\ ctxOp.calls = << >>
    /\ ctx[ctxOp.obj] = EmptyContext
    /\ liveHandles # {}

-----------------------------------------------------------------------------
(* Claims about the locking of the registry.                               *)

\* C11, as claimed: a thread that is at a step reading or changing the view
\* table (lookup, insert, erase, clear, size read) holds the table mutex.
C11_TableAccessUnderMutex ==
    \A t \in Threads : pc[t] \in TableAccessSteps => m_contextMutex = t

\* C11: Shutdown reads the size of the table without the mutex while another
\* thread holds the mutex at a step that changes the table.
C11_SizeReadRacesWrite ==
    \E t, u \in Threads :
        /\ t # u
        /\ pc[t] = "SD_ReadSize"
        /\ m_contextMutex = u
        /\ pc[u] \in TableWriteSteps


\* The rest of C11 holds: at every step that touches the table other than
\* the size read of Shutdown, the thread holds the mutex.
C11_OtherAccessUnderMutex ==
    \A t \in Threads :
        pc[t] \in TableAccessSteps \ {"SD_ReadSize"} => m_contextMutex = t


\* C12, as claimed: a thread at a step that uses the shared capability
\* object holds the table mutex, so no two threads use it at once, and no
\* query uses it once it is destroyed (m_ngxParams null again).
C12_ParamObjectUnderMutex ==
    /\ \A t \in Threads : UsesParamObject(t) => m_contextMutex = t
    /\ \A t, u \in Threads : (UsesParamObject(t) /\ UsesParamObject(u)) => t = u
    /\ \A t \in Threads : pc[t] = "Q_Use" => m_ngxParams # NULL

\* C12: a query that passed its initialized check is about to call the
\* vendor with m_ngxParams after a Shutdown destroyed the capability object.
C12_UseAfterDestroy ==
    \E t, u \in Threads :
        /\ t # u
        /\ pc[u] = "Q_Use"
        /\ m_ngxParams = NULL
        /\ op[t] = "Shutdown"
        /\ \E i \in 1..Len(calls[t]) : calls[t][i] = "DestroyParameters"

\* C12: Shutdown is about to destroy the capability object, without the
\* mutex, while Create under the mutex is about to write presets into it.
C12_DestroyRacesCreate ==
    \E t, u \in Threads :
        /\ t # u
        /\ pc[t] = "SD_Params"
        /\ pc[u] = "CC_Create"
        /\ m_contextMutex = u
        /\ m_ngxParams # NULL


-----------------------------------------------------------------------------
(* Claims about the pending execute snapshot.                              *)

\* C13, as claimed: every thread at a step that writes or reads the pending
\* execute snapshot (the view id or the execute parameters) holds the
\* snapshot mutex, and the parameters a callback has evaluated with are those
\* of one update, the one made for the view id it read.
C13_SnapshotUnderMutex ==
    /\ \A t \in Threads :
        pc[t] \in SnapshotWriteSteps \cup SnapshotReadSteps => m_executeParamsMutex = t
    /\ \A t \in Threads :
        (op[t] = "OnDLSSRenderEvent" /\ pc[t] = "Ret" /\ Len(calls[t]) > 0)
            => /\ [mode |-> evt[t].mode, textures |-> evt[t].textures]
                    = ExecuteParamsFor(evt[t].textures)
               /\ evt[t].textures = evt[t].view

\* C13: a callback has had the vendor evaluate with a mode from one
\* SetExecuteParams and textures from another.
C13_TornRead ==
    \E t \in Threads :
        /\ op[t] = "OnDLSSRenderEvent" /\ pc[t] = "Ret" /\ Len(calls[t]) > 0
        /\ evt[t].mode # ModeFor(evt[t].textures)

\* C13: the callback reads the parameters through the reference while a
\* SetExecuteParams holding the snapshot mutex is half-way through its copy.
C13_ReadDuringWrite ==
    \E t, u \in Threads :
        /\ pc[t] = "RE_Run"
        /\ pc[u] = "SP_CopyRest"
        /\ m_executeParamsMutex = u

\* C13, the part that holds: a thread holding the snapshot mutex holds no
\* table mutex and is not at a step that takes one.
C13_NoTableLockUnderSnapshotMutex ==
    \A t \in Threads :
        m_executeParamsMutex = t => (m_contextMutex # t /\ pc[t] \notin {"RE_Lock", "EX_Lock"})

\* C13: the table mutex is held by a callback while another thread holds the
\* snapshot mutex.
C13_BothMutexesHeld ==
    \E t, u \in Threads : t # u /\ m_executeParamsMutex = t /\ m_contextMutex = u


-----------------------------------------------------------------------------
(* Claims about UpdateContext's handling of the table mutex.               *)

\* C14: no thread is about to lock the table mutex while it holds it; an
\* UpdateContext inside its nested CreateContext does not hold the mutex up
\* to CreateContext's own lock, and holds it again after the nested call; a
\* thread whose operation has returned, or that is in no operation, does not
\* hold the mutex.
C14_NoRelockAndFreeOnReturn ==
    \A t \in Threads :
        /\ pc[t] \in TableLockSteps => m_contextMutex # t
        /\ (op[t] = "UpdateContext" /\ pc[t] = "CC_Check") => m_contextMutex # t
        /\ pc[t] = "UC_Unlock" => m_contextMutex = t
        /\ pc[t] \in {"Ret", "Idle"} => m_contextMutex # t

\* C14: an UpdateContext has returned from its recreation path, the nested
\* CreateContext having called the vendor.
C14_Witness ==
    \E t \in Threads :
        /\ op[t] = "UpdateContext"
        /\ pc[t] = "Ret"
        /\ \E i \in 1..Len(calls[t]) : calls[t][i] \in {"CreateDLSS", "CreateDLSSD"}
        /\ m_contextMutex = 0


-----------------------------------------------------------------------------
(* Claims about Initialize and Shutdown.                                   *)

\* C15: the step of an Initialize that finds the registry initialized is its
\* return of Success; the thread has made no vendor call, and the step leaves
\* the device reference, the capability object, the two capability flags,
\* the view table and the vendor's handles as they were.
C15_InitializeTwiceIsNoOp ==
    [][\A t \in Threads :
        (StepAt(t, "Init_Check") /\ m_initialized)
            => /\ pc'[t] = "Ret"
               /\ result'[t] = "Success"
               /\ calls'[t] = << >>
               /\ UNCHANGED <<m_initialized, m_device, m_ngxParams, m_contexts,
                              m_dlssSRAvailable, m_dlssRRAvailable, liveHandles>>]_vars

\* C15: an Initialize on the initialized registry has returned Success
\* without a vendor call.
C15_Witness ==
    \E t \in Threads :
        /\ op[t] = "Initialize"
        /\ pc[t] = "Ret"
        /\ result[t] = "Success"
        /\ calls[t] = << >>
        /\ m_initialized
        /\ m_device # NULL


\* The step by which thread t's Initialize returns a failure.
InitializeFails(t) ==
    /\ op[t] = "Initialize"
    /\ pc[t] # "Ret"
    /\ pc'[t] = "Ret"
    /\ result'[t] # "Success"

\* C16, as claimed: when an Initialize returns a failure the registry is
\* uninitialized and holds no device reference; a failure for a null device
\* comes with no vendor call; the initialized flag becomes true only by the
\* step of an Initialize whose two vendor steps succeeded.
C16_FailedInitializeLeavesUninitialized ==
    [][/\ \A t \in Threads :
            InitializeFails(t)
                => /\ ~m_initialized'
                   /\ m_device' = NULL
                   /\ (args[t].device = NULL
                        => (result'[t] = "InvalidParameter" /\ calls'[t] = << >>))
       /\ (~m_initialized /\ m_initialized')
            => \E t \in Threads :
                /\ StepAt(t, "Init_Store")
                /\ calls[t] = <<"NGX_Init", "GetCapabilityParameters">>]_vars

\* C16: an Initialize has returned a vendor failure and another has returned
\* Success; the registry is initialized and holds no device reference.
C16_InitializedWithoutDevice ==
    \E t, u \in Threads :
        /\ op[t] = "Initialize" /\ pc[t] = "Ret" /\ result[t] \notin {"Success", "InvalidParameter"}
        /\ op[u] = "Initialize" /\ pc[u] = "Ret" /\ result[u] = "Success"
        /\ calls[u] = <<"NGX_Init", "GetCapabilityParameters">>
        /\ m_initialized
        /\ m_device = NULL

\* C16, what every interleaving keeps: a failing step of Initialize does not
\* change the initialized flag; for a null device it is InvalidParameter
\* with no vendor call and no member changed; for a vendor failure it is the
\* translated result and the device reference is null after it; the flag
\* becomes true only by an Initialize whose two vendor steps succeeded.
C16_FailingStepUnwinds ==
    [][/\ \A t \in Threads :
            InitializeFails(t)
                => /\ m_initialized' = m_initialized
                   /\ IF args[t].device = NULL
                      THEN /\ result'[t] = "InvalidParameter"
                           /\ calls'[t] = << >>
                           /\ UNCHANGED <<mgrVars, vendorVars>>
                      ELSE /\ result'[t] \in {TranslateNGXResult(c) : c \in NGXFailureCodes}
                           /\ m_device' = NULL
                           /\ calls'[t][1] = "NGX_Init"
       /\ (~m_initialized /\ m_initialized')
            => \E t \in Threads :
                /\ StepAt(t, "Init_Store")
                /\ calls[t] = <<"NGX_Init", "GetCapabilityParameters">>]_vars

\* C16: an Initialize has failed at the capability-object fetch.
C16_FetchFailed ==
    \E t \in Threads :
        /\ op[t] = "Initialize" /\ pc[t] = "Ret" /\ result[t] # "Success"
        /\ calls[t] = <<"NGX_Init", "GetCapabilityParameters", "NGX_Shutdown1">>
        /\ m_device = NULL


\* In the call log cs every call named a comes before every call named b.
Before(cs, a, b) ==
    \A i, j \in 1..Len(cs) : (cs[i] = a /\ cs[j] = b) => i < j

\* The order of the vendor calls a Shutdown has made so far.
TeardownOrder(t) ==
    /\ Before(calls[t], "ReleaseFeature", "DestroyParameters")
    /\ Before(calls[t], "ReleaseFeature", "NGX_Shutdown1")
    /\ Before(calls[t], "DestroyParameters", "NGX_Shutdown1")
    /\ Before(calls[t], "NGX_Shutdown1", "DeviceReset")

\* C17, as claimed: a Shutdown's vendor releases come before its destruction
\* of the capability object, which comes before its release of the device;
\* no FeatureContext is left for the vendor when the capability object is
\* destroyed; and when the teardown returns the view table is empty, the
\* two capability flags are false and the registry is not initialized.
C17_TeardownOrderAndEnd ==
    /\ [](\A t \in Threads : op[t] = "Shutdown" => TeardownOrder(t))
    /\ [][\A t \in Threads :
            /\ StepAt(t, "SD_Params") => liveHandles = {}
            /\ StepAt(t, "SD_Device")
                => /\ m_contexts' = << >>
                   /\ ~m_dlssSRAvailable' /\ ~m_dlssRRAvailable'
                   /\ ~m_initialized']_vars

\* C17: a Shutdown has torn down and returned, and the view table holds a
\* context that a CreateContext, past its initialized check when Shutdown
\* began, inserted after the table was cleared.
C17_ContextAfterTeardown ==
    \E t, u \in Threads :
        /\ op[t] = "Shutdown" /\ pc[t] = "Ret"
        /\ \E i \in 1..Len(calls[t]) : calls[t][i] = "DestroyParameters"
        /\ op[u] = "CreateContext" /\ pc[u] = "Ret" /\ result[u] = "Success"
        /\ m_contexts # << >>
        /\ liveHandles # {}
        /\ ~m_initialized

\* C17, what every interleaving keeps: the order of a Shutdown's own vendor
\* calls, the releases of the contexts that were in the table when it was
\* cleared coming first, and the two capability flags false at its return.
C17_OwnCallsInOrder ==
    /\ [](\A t \in Threads : op[t] = "Shutdown" => TeardownOrder(t))
    /\ [][\A t \in Threads :
            /\ (StepAt(t, "DA_Clear") /\ op[t] = "Shutdown")
                => /\ m_contexts' = << >>
                   /\ Count(calls'[t], "ReleaseFeature") = Cardinality(DOMAIN m_contexts)
            /\ StepAt(t, "SD_Device")
                => (~m_dlssSRAvailable' /\ ~m_dlssRRAvailable' /\ m_device' = NULL)]_vars

\* C17: a Shutdown has released a context, destroyed the capability object
\* and released the device.
C17_FullTeardown ==
    \E t \in Threads :
        /\ op[t] = "Shutdown" /\ pc[t] = "Ret"
        /\ calls[t] = <<"ReleaseFeature", "DestroyParameters", "NGX_Shutdown1", "DeviceReset">>


\* C34, as claimed: in every reachable state, under every interleaving of
\* Initialize and Shutdown, an initialized registry holds a device reference
\* and a capability parameter object.
C34_InitializedHasDeviceAndParams ==
    m_initialized => (m_device # NULL /\ m_ngxParams # NULL)

\* C34: no operation is in progress, the registry is initialized and holds
\* neither a device nor a parameter object: a Shutdown that had cleared the
\* flag went on to tear down what a concurrent Initialize had just set up.
C34_InitializedWithNothing ==
    /\ \A t \in Threads : pc[t] \in {"Idle", "Ret"}
    /\ m_initialized
    /\ m_device = NULL
    /\ m_ngxParams = NULL
    /\ \E t, u \in Threads :
          /\ op[t] = "Initialize" /\ result[t] = "Success"
          /\ op[u] = "Shutdown" /\ pc[u] = "Ret"

\* C34, with one operation at a time: an initialized registry holds a device
\* reference and a parameter object whenever no operation is in progress.
C34_SequentialInitializedComplete ==
    Quiet => (m_initialized => (m_device # NULL /\ m_ngxParams # NULL))

\* C35, as claimed: whenever no registry operation is in progress and the
\* registry is not initialized, the view table is empty.
C35_QuiescentUninitializedEmpty ==
    ((\A t \in Threads : pc[t] \in {"Idle", "Ret"}) /\ ~m_initialized)
        => m_contexts = << >>

\* C35: no operation is in progress, the registry is not initialized, and
\* the table holds a live context that an UpdateContext inserted: its
\* CreateContext had passed the initialized check before a Shutdown cleared
\* the table.
C35_UpdateInsertedAfterShutdown ==
    /\ \A t \in Threads : pc[t] \in {"Idle", "Ret"}
    /\ ~m_initialized
    /\ \E t, u \in Threads :
          /\ op[t] = "UpdateContext" /\ result[t] = "Success"
          /\ Len(calls[t]) = 2
          /\ args[t].view \in DOMAIN m_contexts
          /\ m_contexts[args[t].view].handle \in liveHandles
          /\ op[u] = "Shutdown" /\ pc[u] = "Ret"

\* C35, with one operation at a time: an uninitialized registry has an
\* empty table whenever no operation is in progress.
C35_SequentialUninitializedEmpty ==
    (Quiet /\ ~m_initialized) => m_contexts = << >>

-----------------------------------------------------------------------------
(* Claims about the translators.                                           *)

\* C18: TranslateNGXResult gives every vendor code one application result;
\* the result is Success exactly for the vendor success code, for which
\* nothing is logged; a code the table has no case for gives NGXError.
C18_TranslateTotal ==
    "TranslateNGXResult" \in fnDone
        => /\ fnOut.result \in DLSSResults
           /\ fnOut.result = TranslateNGXResult(fnIn.code)
           /\ (fnOut.result = "Success") <=> (fnIn.code = NGX_Success)
           /\ fnIn.code = NGX_Success => fnOut.logLines = 0
           /\ fnIn.code \notin TableCodes \cup {NGX_Success} => fnOut.result = "NGXError"

\* C18: a code the table has no case for has been translated.
C18_Witness ==
    /\ "TranslateNGXResult" \in fnDone
    /\ fnIn.code \in {"FAIL_Unrecognized", "Unlisted"}
    /\ fnOut.result = "NGXError"
    /\ fnOut.logLines > 0

\* C18: the success code has been translated.
C18_WitnessSuccess ==
    /\ "TranslateNGXResult" \in fnDone
    /\ fnIn.code = NGX_Success
    /\ fnOut.result = "Success"

\* The vendor codes of the six sub-reasons: bad parameter, unsupported
\* format (input format, texture format), missing input, missing read/write
\* flag, unsupported parameter value, undersized scratch buffer.
InvalidParameterReasons ==
    {"FAIL_InvalidParameter", "FAIL_UnsupportedInputFormat", "FAIL_UnsupportedFormat",
     "FAIL_MissingInput", "FAIL_RWFlagMissing", "FAIL_UnsupportedParameter",
     "FAIL_ScratchBufferTooSmall"}

\* C19: TranslateNGXResult returns InvalidParameter for each code of the six
\* sub-reasons and for no other vendor code.
C19_InvalidParameterReasons ==
    "TranslateNGXResult" \in fnDone
        => ((fnOut.result = "InvalidParameter") <=> (fnIn.code \in InvalidParameterReasons))

\* C19: the undersized-scratch-buffer code has been translated.
C19_Witness ==
    /\ "TranslateNGXResult" \in fnDone
    /\ fnIn.code = "FAIL_ScratchBufferTooSmall"
    /\ fnOut.result = "InvalidParameter"

DefinedFlags ==
    {DLSS_Flag_IsHDR, DLSS_Flag_MVLowRes, DLSS_Flag_MVJittered, DLSS_Flag_DepthInverted,
     DLSS_Flag_AutoExposure, DLSS_Flag_AlphaUpscaling}

\* The part of a bitmask that lies in the six defined bits.
DefinedPart(n) == {b \in DefinedFlags : HasFlag(n, b)}

\* C21: ToNGXFeatureFlags of a | b is the union of the vendor masks of a and
\* of b; the mask 0 gives the empty vendor mask; one defined bit alone gives
\* one vendor bit, two different defined bits give two different vendor
\* bits; two masks that agree on the six defined bits give the same vendor
\* mask, whose size is the number of defined bits set.
C21_FlagsIndependent ==
    "ToNGXFeatureFlags" \in fnDone
        => /\ fnOut.ngxFlagsOr = fnOut.ngxFlags \cup fnOut.ngxFlags2
           /\ fnIn.flags = DLSS_Flag_None => fnOut.ngxFlags = {}
           /\ fnIn.flags \in DefinedFlags => Cardinality(fnOut.ngxFlags) = 1
           /\ (/\ fnIn.flags \in DefinedFlags /\ fnIn.flags2 \in DefinedFlags
               /\ fnIn.flags # fnIn.flags2) => fnOut.ngxFlags # fnOut.ngxFlags2
           /\ DefinedPart(fnIn.flags) = DefinedPart(fnIn.flags2)
                => fnOut.ngxFlags = fnOut.ngxFlags2
           /\ Cardinality(fnOut.ngxFlags) = Cardinality(DefinedPart(fnIn.flags))

\* C21: two overlapping masks, one with an undefined bit, have been mapped.
C21_Witness ==
    /\ "ToNGXFeatureFlags" \in fnDone
    /\ fnIn.flags = DLSS_Flag_IsHDR + DLSS_Flag_MVJittered + 16
    /\ fnIn.flags2 = DLSS_Flag_MVJittered + DLSS_Flag_AutoExposure
    /\ Cardinality(fnOut.ngxFlagsOr) = 3
    /\ Cardinality(fnOut.ngxFlags) = 2

\* The identity the vendor initialization receives is the project ID p.
InitWithProjectId(p) ==
    /\ fnOut.initCall.entry = "NVSDK_NGX_D3D12_Init_with_ProjectID"
    /\ "projectId" \in DOMAIN fnOut.initCall.args
    /\ fnOut.initCall.args.projectId = p

\* The identity the vendor initialization receives is the application ID a.
InitWithApplicationId(a) ==
    /\ "appId" \in DOMAIN fnOut.initCall.args
    /\ fnOut.initCall.args.appId = a

\* C32: InitializeNGX initializes the vendor SDK with the project-ID
\* identity when a non-empty project ID is supplied, and with the numeric
\* application-ID identity, the supplied appId, when the project ID is null
\* or empty.
C32_IdentityByProjectId ==
    "InitializeNGX" \in fnDone =>
        IF fnIn.projectId \notin {"nullptr", ""}
        THEN InitWithProjectId(fnIn.projectId)
        ELSE InitWithApplicationId(fnIn.appId)

\* C32, the part that holds: with a non-empty project ID the vendor
\* initialization receives that project ID.
C32_ProjectIdReachesVendor ==
    ("InitializeNGX" \in fnDone /\ fnIn.projectId \notin {"nullptr", ""})
        => InitWithProjectId(fnIn.projectId)

\* C32: without a project ID the application-ID identifier is filled in
\* with the supplied appId and the vendor is initialized with an empty
\* project ID; the appId is not passed.
C32_AppIdNotPassed ==
    /\ "InitializeNGX" \in fnDone
    /\ fnIn.projectId = "nullptr"
    /\ fnIn.appId = MaxAppId
    /\ fnOut.appIdentifier = [IdentifierType |-> "Application_Id", ApplicationId |-> MaxAppId]
    /\ InitWithProjectId("")
    /\ ~InitWithApplicationId(fnIn.appId)

-----------------------------------------------------------------------------
(* Claims about the queries and about Execute.                             *)

\* C22: a query on a registry that is not initialized returns
\* NotInitialized, whatever its output pointer; on an initialized registry
\* with a null output pointer it returns InvalidParameter; and a query that
\* has returned anything but Success has not written the caller's structure.
C22_QueryFailuresWriteNothing ==
    /\ [](\A t \in Threads :
            (op[t] \in Queries /\ pc[t] = "Ret" /\ result[t] # "Success")
                => out[t] = "untouched")
    /\ [][\A t \in Threads :
            StepAt(t, "Q_Check")
                => /\ ~m_initialized
                        => (pc'[t] = "Ret" /\ result'[t] = "NotInitialized")
                   /\ (m_initialized /\ args[t].outPtr = NULL)
                        => (pc'[t] = "Ret" /\ result'[t] = "InvalidParameter")
                   /\ (m_initialized /\ args[t].outPtr # NULL) => pc'[t] = "Q_Use"
                   /\ calls'[t] = << >>]_vars

\* C22: a GetStats or GetOptimalSettings has returned a translated vendor
\* failure.
C22_Witness ==
    \E t \in Threads :
        /\ op[t] \in {"GetOptimalSettings", "GetStats"}
        /\ pc[t] = "Ret"
        /\ result[t] = "OutOfMemory"
        /\ Len(calls[t]) = 1
        /\ out[t] = "untouched"

\* C22: a query with a null output pointer on a registry that is not
\* initialized has returned NotInitialized.
C22_WitnessOrder ==
    \E t \in Threads :
        /\ op[t] \in Queries /\ pc[t] = "Ret"
        /\ args[t].outPtr = NULL
        /\ result[t] = "NotInitialized"


\* The vendor evaluation calls in a call log.
Evaluations(cs) == Count(cs, "EvaluateDLSS") + Count(cs, "EvaluateDLSSD")

\* C23: Execute on a registry that is not initialized returns NotInitialized
\* even with a null command list; initialized, with a null command list, it
\* returns InvalidParameter; neither check takes the mutex or touches the
\* table. Past both, with the mutex held, a missing view gives
\* ContextNotFound without a vendor call, and the vendor evaluates only in
\* that step, for a view that is in the table, with the mutex held.
C23_ExecuteCheckOrder ==
    [][\A t \in Threads :
        /\ (StepAt(t, "EX_Check") /\ op[t] = "Execute")
            => /\ ~m_initialized => (pc'[t] = "Ret" /\ result'[t] = "NotInitialized")
               /\ (m_initialized /\ args[t].cmdList = NULL)
                    => (pc'[t] = "Ret" /\ result'[t] = "InvalidParameter")
               /\ (m_initialized /\ args[t].cmdList # NULL) => pc'[t] = "EX_Lock"
               /\ UNCHANGED <<m_contexts, m_contextMutex, calls, liveHandles>>
        /\ (StepAt(t, "EX_Run") /\ args[t].view \notin DOMAIN m_contexts)
            => (result'[t] = "ContextNotFound" /\ calls'[t] = << >>)
        /\ (op[t] = "Execute" /\ calls'[t] # calls[t] /\ calls'[t] # << >>)
            => /\ pc[t] = "EX_Run"
               /\ m_contextMutex = t
               /\ args[t].cmdList # NULL
               /\ args[t].view \in DOMAIN m_contexts
               /\ Evaluations(calls'[t]) = 1]_vars

\* C23: an Execute that passed the three checks has had the vendor evaluate.
C23_Witness ==
    \E t \in Threads :
        /\ op[t] = "Execute" /\ pc[t] = "Ret"
        /\ Evaluations(calls[t]) = 1
        /\ result[t] = "Success"

\* C23: an Execute with a null command list on a registry that is not
\* initialized has returned NotInitialized.
C23_WitnessOrder ==
    \E t \in Threads :
        /\ op[t] = "Execute" /\ pc[t] = "Ret"
        /\ args[t].cmdList = NULL
        /\ result[t] = "NotInitialized"


\* The vendor create calls in a call log.
Creations(cs) == Count(cs, "CreateDLSS") + Count(cs, "CreateDLSSD")

\* The results a failing vendor call is translated to.
TranslatedFailures == {TranslateNGXResult(c) : c \in NGXFailureCodes}

\* C24: a CreateContext or UpdateContext has called the vendor create at
\* most once and an Execute the vendor evaluation at most once; the step
\* that makes the vendor call is the step that settles the result, Success
\* or the translated failure, and when the create gave no handle the result
\* is the translated failure; UpdateContext returns the result of its
\* nested CreateContext.
C24_NoRetries ==
    /\ [](\A t \in Threads :
            /\ op[t] \in {"CreateContext", "UpdateContext"} => Creations(calls[t]) <= 1
            /\ op[t] = "Execute" => Evaluations(calls[t]) <= 1
            /\ (/\ op[t] \in {"CreateContext", "UpdateContext", "Execute"}
                /\ pc[t] = "Ret" /\ result[t] = "OutOfMemory")
                => Creations(calls[t]) + Evaluations(calls[t]) = 1)
    /\ [][\A t \in Threads :
            /\ Creations(calls'[t]) > Creations(calls[t])
                => /\ pc[t] = "CC_Create"
                   /\ pc'[t] \in {"Ret", "UC_Relock"}
                   /\ result'[t] \in {"Success"} \cup TranslatedFailures
                   /\ (liveHandles' \subseteq liveHandles) => result'[t] \in TranslatedFailures
            /\ Evaluations(calls'[t]) > Evaluations(calls[t])
                => /\ pc[t] = "EX_Run"
                   /\ pc'[t] = "Ret"
                   /\ result'[t] \in {"Success"} \cup TranslatedFailures
            /\ StepAt(t, "UC_Unlock") => result'[t] = result[t]]_vars

\* C24: a CreateContext whose vendor create failed has returned.
C24_Witness ==
    \E t \in Threads :
        /\ op[t] = "CreateContext" /\ pc[t] = "Ret"
        /\ result[t] = "OutOfMemory"
        /\ Creations(calls[t]) = 1

\* C24: an UpdateContext whose vendor create failed has returned.
C24_WitnessUpdate ==
    \E t \in Threads :
        /\ op[t] = "UpdateContext" /\ pc[t] = "Ret"
        /\ result[t] = "OutOfMemory"
        /\ Creations(calls[t]) = 1

\* C24: an Execute whose vendor evaluation failed has returned.
C24_WitnessExecute ==
    \E t \in Threads :
        /\ op[t] = "Execute" /\ pc[t] = "Ret"
        /\ result[t] = "OutOfMemory"
        /\ Evaluations(calls[t]) = 1


-----------------------------------------------------------------------------
(* Claims about termination.                                               *)

\* Thread t is inside an operation it has called and that has not returned.
Inside(t) == pc[t] \notin {"Idle", "Ret"}

C25_WitnessSnapshot ==
    \E t, u \in Threads :
        /\ t # u
        /\ pc[t] = "SP_Lock"
        /\ m_executeParamsMutex = u


-----------------------------------------------------------------------------
(* Claims about UpdateContext and NeedsRecreation.                         *)

\* C26: with one operation at a time, the step of UpdateContext that finds
\* the view with NeedsRecreation true makes one vendor release, of the old
\* handle, before any vendor create; an UpdateContext that has returned from
\* that path has made that release and after it at most one vendor create
\* (none when the recording scope could not be opened), and it has returned
\* Success exactly when the view is in the table with a live handle and a
\* snapshot equal to the parameters passed, the create having succeeded.
C26_UpdateRecreates ==
    /\ [](\A t \in Threads :
            (op[t] = "UpdateContext" /\ pc[t] = "Ret" /\ Len(calls[t]) > 0)
                => /\ calls[t][1] = "ReleaseFeature"
                   /\ Count(calls[t], "ReleaseFeature") = 1
                   /\ Creations(calls[t]) = Len(calls[t]) - 1
                   /\ Creations(calls[t]) <= 1
                   /\ ~doubleRelease
                   /\ result[t] = "Success" => Creations(calls[t]) = 1
                   /\ result[t] = "Success"
                        <=> /\ args[t].view \in DOMAIN m_contexts
                            /\ m_contexts[args[t].view].params = args[t].params
                            /\ m_contexts[args[t].view].handle \in liveHandles)
    /\ [][\A t \in Threads :
            (/\ StepAt(t, "UC_Find")
             /\ args[t].view \in DOMAIN m_contexts
             /\ NeedsRecreation(m_contexts[args[t].view].params, args[t].params))
                => /\ calls'[t] = <<"ReleaseFeature">>
                   /\ liveHandles' = liveHandles \ {m_contexts[args[t].view].handle}
                   /\ m_contexts[args[t].view].handle \in liveHandles
                   /\ pc'[t] = "CC_Check"]_vars

\* The results with which the CreateContext inside UpdateContext fails.
RecreateFailures ==
    {"NotInitialized", "ContextAlreadyExists", "PlatformError"} \cup TranslatedFailures

\* Thread t is in UpdateContext past the erase of the old entry, and the
\* CreateContext it called has failed or fails at this step.
RecreateFailedAt(t) ==
    /\ op[t] = "UpdateContext"
    /\ pc[t] \in {"CC_Check", "CC_Lock", "CC_Find", "CC_Create", "UC_Relock", "UC_Unlock"}
    /\ pc'[t] \in {"UC_Relock", "UC_Unlock", "Ret"}
    /\ pc'[t] # pc[t]

\* C33: the step of UpdateContext that finds NeedsRecreation true releases
\* the old handle and erases the entry; when the CreateContext entered
\* after it fails, with NotInitialized, ContextAlreadyExists, PlatformError
\* or a translated vendor failure, no step of the thread from the failure
\* to its return changes the table or the live handles, so the old context
\* is not restored, and UpdateContext returns that failure.
C33_FailedRecreationLosesContext ==
    /\ [][\A t \in Threads :
            (/\ StepAt(t, "UC_Find")
             /\ args[t].view \in DOMAIN m_contexts
             /\ NeedsRecreation(m_contexts[args[t].view].params, args[t].params))
                => /\ calls'[t] = <<"ReleaseFeature">>
                   /\ args[t].view \notin DOMAIN m_contexts'
                   /\ m_contexts[args[t].view].handle \notin liveHandles'
                   /\ pc'[t] = "CC_Check"]_vars
    /\ [][\A t \in Threads :
            (RecreateFailedAt(t) /\ result'[t] # "Success")
                => /\ result'[t] \in RecreateFailures
                   /\ pc[t] \in {"UC_Relock", "UC_Unlock"} => result'[t] = result[t]
                   /\ m_contexts' = m_contexts
                   /\ liveHandles' = liveHandles
                   /\ Count(calls'[t], "ReleaseFeature") = 1]_vars
    /\ [](\A t \in Threads :
            (op[t] = "UpdateContext" /\ pc[t] \in {"UC_Relock", "UC_Unlock"}
             /\ result[t] = "Success")
                => Creations(calls[t]) = 1)
    /\ [][\A t \in Threads :
            (RecreateFailedAt(t) /\ pc[t] \in {"UC_Relock", "UC_Unlock"})
                => result'[t] = result[t]]_vars

\* C33 witness: UpdateContext has returned the translated vendor failure of
\* the create it made after releasing the old handle, and the view has no
\* context.
C33_Witness ==
    \E t \in Threads :
        /\ op[t] = "UpdateContext" /\ pc[t] = "Ret"
        /\ calls[t] = <<"ReleaseFeature", "CreateDLSS">>
        /\ result[t] = TranslateNGXResult("FAIL_OutOfGPUMemory")
        /\ args[t].view \notin DOMAIN m_contexts

\* C33 witness: UpdateContext has returned NotInitialized, a Shutdown
\* having run between its erase and the check of the CreateContext it called.
C33_WitnessShutdown ==
    \E t \in Threads :
        /\ op[t] = "UpdateContext" /\ pc[t] = "Ret"
        /\ calls[t] = <<"ReleaseFeature">>
        /\ result[t] = "NotInitialized"
        /\ args[t].view \notin DOMAIN m_contexts

\* C33 witness: UpdateContext has returned PlatformError after its release.
C33_WitnessPlatform ==
    \E t \in Threads :
        /\ op[t] = "UpdateContext" /\ pc[t] = "Ret"
        /\ calls[t] = <<"ReleaseFeature">>
        /\ result[t] = "PlatformError"

\* C33 witness: UpdateContext has returned ContextAlreadyExists after its
\* release; the view holds the context another thread created with other
\* parameters.
C33_WitnessOtherCreate ==
    \E t \in Threads :
        /\ op[t] = "UpdateContext" /\ pc[t] = "Ret"
        /\ calls[t] = <<"ReleaseFeature">>
        /\ result[t] = "ContextAlreadyExists"
        /\ args[t].view \in DOMAIN m_contexts
        /\ m_contexts[args[t].view].params # args[t].params

\* C36: under every interleaving of the registry's operations no handle is
\* released twice, no two views hold the same handle, and the live handles
\* are exactly the handles of the table's entries: a handle is created by
\* the step that inserts its entry and released by the step at which its
\* entry leaves the table (erase, clear or replacement), so every handle of
\* a successful create is released once and no later than that.
C36_HandlesReleasedOnce ==
    /\ [](/\ ~doubleRelease
          /\ liveHandles = TableHandles
          /\ \A v, w \in DOMAIN m_contexts :
                v # w => m_contexts[v].handle # m_contexts[w].handle)
    /\ [][\A v \in DOMAIN m_contexts :
            (v \notin DOMAIN m_contexts' \/ m_contexts'[v].handle # m_contexts[v].handle)
                => /\ m_contexts[v].handle \in liveHandles
                   /\ m_contexts[v].handle \notin liveHandles'
                   /\ \E t \in Threads :
                         /\ Len(calls'[t]) > Len(calls[t])
                         /\ calls'[t][Len(calls[t]) + 1] = "ReleaseFeature"]_vars
    /\ [][\A h \in Handles :
            (h \in liveHandles' \ liveHandles)
                => \E t \in Threads, v \in Views :
                     /\ StepAt(t, "CC_Create")
                     /\ result'[t] = "Success"
                     /\ v \notin DOMAIN m_contexts
                     /\ v \in DOMAIN m_contexts' /\ m_contexts'[v].handle = h]_vars

\* C36 witness: a DestroyAllContexts has cleared a table of two entries with
\* two releases; no handle is live and none was released twice.
C36_Witness ==
    \E t \in Threads :
        /\ op[t] = "DestroyAllContexts" /\ pc[t] = "Ret"
        /\ calls[t] = <<"ReleaseFeature", "ReleaseFeature">>
        /\ liveHandles = {}
        /\ m_contexts = << >>
        /\ ~doubleRelease

\* C36 witness: a Shutdown has released the handle of a context that an
\* UpdateContext had created in place of the one it released.
C36_WitnessReplaced ==
    \E t, u \in Threads :
        /\ op[t] = "Shutdown" /\ pc[t] = "Ret"
        /\ Count(calls[t], "ReleaseFeature") = 1
        /\ op[u] = "UpdateContext" /\ result[u] = "Success"
        /\ calls[u] = <<"ReleaseFeature", "CreateDLSS">>
        /\ liveHandles = {}
        /\ ~doubleRelease

\* C37: the snapshot of a view is set only by the step of a CreateContext
\* (called directly or from UpdateContext) for that view whose vendor create
\* succeeded, to the parameters of that create, and no other step changes
\* it while the entry stays; an UpdateContext that finds NeedsRecreation
\* false returns Success and leaves the table, snapshot included, as it
\* was, so the snapshot is always the parameters of the last creation.
C37_SnapshotOfLastCreation ==
    /\ [][\A v \in DOMAIN m_contexts' :
            (v \notin DOMAIN m_contexts \/ m_contexts'[v] # m_contexts[v])
                => \E t \in Threads :
                     /\ StepAt(t, "CC_Create")
                     /\ args[t].view = v
                     /\ result'[t] = "Success"
                     /\ calls'[t] = Append(calls[t], CreateEntryPoint(args[t].params))
                     /\ m_contexts'[v].params = args[t].params]_vars
    /\ [][\A t \in Threads :
            (/\ StepAt(t, "UC_Find")
             /\ args[t].view \in DOMAIN m_contexts
             /\ ~NeedsRecreation(m_contexts[args[t].view].params, args[t].params))
                => /\ pc'[t] = "Ret" /\ result'[t] = "Success"
                   /\ calls'[t] = << >>
                   /\ m_contexts' = m_contexts]_vars

\* C37 witness: an UpdateContext with a smaller input resolution and other
\* presets has returned Success without a vendor call, and the snapshot of
\* its view is still the parameters of the creation.
C37_Witness ==
    \E t \in Threads :
        /\ op[t] = "UpdateContext" /\ pc[t] = "Ret"
        /\ result[t] = "Success"
        /\ calls[t] = << >>
        /\ args[t].view \in DOMAIN m_contexts
        /\ args[t].params = ParamsMinor
        /\ m_contexts[args[t].view].params = ParamsLarge
        /\ \E u \in Threads :
              /\ op[u] = "CreateContext" /\ result[u] = "Success"
              /\ args[u].view = args[t].view
              /\ m_contexts[args[t].view].params = args[u].params

\* C26: an UpdateContext that recreated the context has returned Success.
C26_Witness ==
    \E t \in Threads :
        /\ op[t] = "UpdateContext" /\ pc[t] = "Ret"
        /\ Len(calls[t]) = 2
        /\ result[t] = "Success"
        /\ m_contexts[args[t].view].params = args[t].params

-----------------------------------------------------------------------------
(* Claims about the Lite plugin, under SpecLite.                           *)

\* The handle value the allocator looks at.
LiteCandidate == g_featureHandleCounter % LiteCapacity

C39_WitnessWrapped ==
    /\ liteOp.name = "AllocateFeatureHandle"
    /\ liteOp.result = LiteCapacity - 1
    /\ g_featureHandleCounter = 0
    /\ DOMAIN g_featureHandles = 0..(LiteCapacity - 1)

\* The vendor features the entries of the handle table hold.
LiteTableFeatures == {g_featureHandles[h] : h \in DOMAIN g_featureHandles} \ {NULL}

\* C40, as claimed: for every sequence of the Lite plugin's calls, every
\* vendor feature of a successful CreateFeature event is released exactly
\* once, by a DestroyFeature event or by Shutdown: none is released twice,
\* every live feature is in the handle table, where those two can reach it,
\* and a Shutdown that ran left no feature unreleased; and no feature is
\* evaluated that is not live.
C40_FeaturesReleasedOnce ==
    /\ ~doubleRelease
    /\ liveHandles \subseteq LiteTableFeatures
    /\ liteOp.name = "Shutdown" => liteOp.unreleased = {}
    /\ \A i \in 1..Len(liteOp.calls) :
          liteOp.calls[i].call = "EvaluateFeature" => liteOp.calls[i].handle \in liveHandles

\* C40: a Shutdown has run on an empty table while a feature was live: a
\* DLSS_FreeFeatureHandle had erased its entry, or a second CreateFeature
\* event had overwritten it, and the feature was never released.
C40_FeatureNeverReleased ==
    /\ liteOp.name = "Shutdown"
    /\ liteOp.hostOk
    /\ liteOp.unreleased # {}
    /\ liteOp.calls = <<[call |-> "NGX_Shutdown1", handle |-> NULL]>>

\* C40, what every sequence keeps: no feature is released twice, the
\* features of the table are live and held by one entry each, and an
\* EvaluateFeature event evaluates only the live feature of its entry.
C40_NoDoubleReleaseNoDeadEvaluate ==
    /\ ~doubleRelease
    /\ LiteTableFeatures \subseteq liveHandles
    /\ \A h, k \in DOMAIN g_featureHandles :
          (h # k /\ g_featureHandles[h] # NULL) => g_featureHandles[h] # g_featureHandles[k]
    /\ \A i \in 1..Len(liteOp.calls) :
          liteOp.calls[i].call = "EvaluateFeature" => liteOp.calls[i].handle \in liveHandles

====
